---- MODULE Spec2Model ----
(***************************************************************************)
(* Model of the discoblocks claim controller: the PVC reconciler, its      *)
(* event filter and the volume monitor (controllers/pvc_controller.go).    *)
(*                                                                         *)
(* Quantities are integers in units of 512Mi, so that "1Gi" is 2 units and *)
(* a maximum may lie strictly between actual and actual + 1Gi.  The float  *)
(* comparison of MonitorVolumes is modelled exactly, by cross-multiplying  *)
(* with 100; float64 rounding is not modelled.                             *)
(***************************************************************************)
EXTENDS Integers, Sequences, FiniteSets, TLC

\* ---------------------------------------------------------------- bounds
\* Largest capacity, maximum and free-space value, in units of 512Mi.
MaxCap == 3

\* ------------------------------------------------------------- constants
\* resource.ParseQuantity("1Gi"), in units of 512Mi.
GiB == 2
\* const hundred = 100
hundred == 100

Claims == {"pvc1", "pvc2"}
Configs == {"dc1", "dc2"}
Pods == {"pod1", "pod2"}
Phases == {"Pending", "Bound"}
\* Values of Policy.UpscaleTriggerPercentage the model explores.
Percentages == {25, 50}
\* Policy.MaximumCapacityOfDisk is a string: a quantity, or one that does not parse.
BadQuantity == 0 - 1
MaxQuantities == (1..MaxCap) \cup {BadQuantity}
\* Absence of an entry in DiskConfig.Status.PersistentVolumeClaims.
NoEntry == "no-entry"

VARIABLES
    pvc,         \* the PersistentVolumeClaim objects of the cluster, by name
    dc,          \* the DiskConfig objects of the cluster, by name
    endpoints,   \* the Endpoints objects carrying the "discoblocks" label
    exporter,    \* per pod: the node_filesystem_avail_bytes line its exporter serves
    gate,        \* holder of the process-wide controller semaphore
    queue,       \* the controller's work queue (keys are de-duplicated)
    recPc,       \* Reconcile: position of the single worker
    recReq,      \* Reconcile: the request being handled
    recPVC,      \* Reconcile: the claim as fetched
    recCfg,      \* Reconcile: the configuration as fetched (and then modified)
    recStale,    \* Reconcile: the fetched configuration's resourceVersion is outdated
    recResult,   \* Reconcile: what the last call returned
    monPc,       \* MonitorVolumes: position
    monDisco,    \* MonitorVolumes: discoblocks, pod -> configuration names
    monMetrics,  \* MonitorVolumes: metrics, pod -> collected lines
    monPodsLeft, \* MonitorVolumes: pods the outer range loop has not visited yet
    monPod,      \* MonitorVolumes: the pod being processed
    monCfgIdx,   \* MonitorVolumes: index into discoblocks[pod]
    monMetIdx,   \* MonitorVolumes: index into metrics[pod]
    monCache,    \* MonitorVolumes: diskConfigCache
    monIssued,   \* MonitorVolumes: the r.Update calls of this cycle, in order
    monLog,      \* MonitorVolumes: the last message logged for a sample
    evt,         \* the last event offered to pvcEventFilter, and its verdict
    strict,      \* PodMutator.strict
    admRaw,      \* Handle: the pod of the admission request (req.Object.Raw)
    admConfigs,  \* Handle: diskConfigs.Items as listed
    admPod,      \* Handle: the decoded pod, as mutated so far
    admPc,       \* Handle: position
    admIdx,      \* Handle: index of the loop over diskConfigs.Items
    admVolumes,  \* Handle: volumes, claim name -> mount point, in insertion order
    admResp,     \* Handle: the admission.Response returned
    admCreated,  \* the claims a.Client.Create has created during this call
    drvEnv,      \* driver call: the environment variable STORAGE_CLASS_JSON
    drvOut,      \* driver call: what the call printed to standard output
    job,         \* the command of the rendered host job
    host,        \* the node the job runs on: file system, commands that fail there
    run          \* the run of the job's command by the shell

clusterVars == <<pvc, dc, endpoints, exporter>>
recVars == <<recPc, recReq, recPVC, recCfg, recStale, recResult>>
monVars == <<monPc, monDisco, monMetrics, monPodsLeft, monPod, monCfgIdx,
             monMetIdx, monCache, monIssued, monLog>>
webVars == <<strict, admRaw, admConfigs, admPod, admPc, admIdx, admVolumes,
             admResp, admCreated>>
drvVars == <<drvEnv, drvOut, job, host, run>>
vars == <<pvc, dc, endpoints, exporter, gate, queue, recPc, recReq, recPVC,
          recCfg, recStale, recResult, monPc, monDisco, monMetrics,
          monPodsLeft, monPod, monCfgIdx, monMetIdx, monCache, monIssued,
          monLog, evt, strict, admRaw, admConfigs, admPod, admPc, admIdx,
          admVolumes, admResp, admCreated, drvEnv, drvOut, job, host, run>>

\* ------------------------------------------------------------ utilities
\* utils.RenderFinalizer(name): the finalizer string naming a configuration.
RenderFinalizer(name) == <<"discoblocks.io", name>>

\* utils.RenderMountPoint(pattern, name, 0) for a pattern without a name part:
\* the pattern itself.
RenderMountPoint(pattern, name, index) == pattern

\* controllerutil.ContainsFinalizer
ContainsFinalizer(obj, finalizer) == finalizer \in obj.finalizers

\* A claim that does not exist.
NoClaim ==
    [exists |-> FALSE, finalizers |-> {}, label |-> "", deleting |-> FALSE,
     phase |-> "Pending", cap |-> 0, req |-> 0]

\* A configuration that does not exist.
NoConfig ==
    [exists |-> FALSE, pause |-> FALSE, max |-> BadQuantity, pct |-> 0,
     pattern |-> "", status |-> [c \in Claims |-> NoEntry],
     deleting |-> FALSE, selector |-> {}, class |-> ""]

\* utils.NewPVC: the claim the pod mutator creates for a configuration.
NewPVC(config, capacity) ==
    [exists |-> TRUE, finalizers |-> {RenderFinalizer(config)}, label |-> config,
     deleting |-> FALSE, phase |-> "Pending", cap |-> 0, req |-> capacity]

\* ---------------------------------------------------------- event filter
\* An event object that is not a *corev1.PersistentVolumeClaim.
NotAClaim == [isClaim |-> FALSE]

AsEventObject(p) ==
    [isClaim |-> TRUE, finalizers |-> p.finalizers, label |-> p.label,
     deleting |-> p.deleting, phase |-> p.phase]

\* Any finalizer accepted, whatever configuration it names.
FilterCreate_AnyFinalizer(obj) ==
    IF ~obj.isClaim THEN FALSE ELSE obj.finalizers # {}

\* pvcEventFilter.Create
FilterCreate(obj) ==
    IF ~obj.isClaim THEN FALSE
    ELSE ContainsFinalizer(obj, RenderFinalizer(obj.label))

\* pvcEventFilter.Delete
FilterDelete(obj) == FALSE

\* pvcEventFilter.Update
FilterUpdate(old, new) ==
    IF ~new.isClaim THEN FALSE
    ELSE IF ~ContainsFinalizer(new, RenderFinalizer(new.label)) THEN FALSE
    ELSE IF ~old.isClaim THEN FALSE
    ELSE old.deleting \/ new.deleting \/ old.phase # new.phase

\* pvcEventFilter.Generic
FilterGeneric(obj) == FALSE

\* No event has been offered.
NoEvent == [kind |-> "none"]

\* The filter's verdict on an event of the given kind.
Admit(kind, old, new) ==
    CASE kind = "create" -> FilterCreate(new)
      [] kind = "update" -> FilterUpdate(old, new)
      [] kind = "delete" -> FilterDelete(new)
      [] OTHER -> FilterGeneric(new)

\* The controller offers a claim's event to the filter and enqueues the
\* claim's key when the filter admits it.
Offer(kind, c, old, new) ==
    queue' = IF Admit(kind, AsEventObject(old), AsEventObject(new))
             THEN queue \cup {c} ELSE queue

\* ------------------------------------------------------ the cluster acts
\* The pod mutator creates a claim for a configuration (NewPVC); the
\* configuration may be gone by then.
ClaimCreated(c) ==
    /\ ~pvc[c].exists
    /\ \E d \in Configs :
          /\ pvc' = [pvc EXCEPT ![c] = NewPVC(d, GiB)]
          /\ Offer("create", c, NewPVC(d, GiB), NewPVC(d, GiB))
    /\ UNCHANGED <<dc, endpoints, exporter, gate, recVars, monVars, evt, webVars, drvVars>>

\* The platform binds a pending claim: its phase changes and its capacity is
\* what it requested.
ClaimBound(c) ==
    /\ pvc[c].exists /\ pvc[c].phase = "Pending"
    /\ LET new == [pvc[c] EXCEPT !.phase = "Bound", !.cap = pvc[c].req]
       IN /\ pvc' = [pvc EXCEPT ![c] = new]
          /\ Offer("update", c, pvc[c], new)
    /\ UNCHANGED <<dc, endpoints, exporter, gate, recVars, monVars, evt, webVars, drvVars>>

\* A field the controller does not look at changes (an annotation, say).
ClaimTouched(c) ==
    /\ pvc[c].exists
    /\ Offer("update", c, pvc[c], pvc[c])
    /\ UNCHANGED <<clusterVars, gate, recVars, monVars, evt, webVars, drvVars>>

\* Deletion is requested: with a finalizer the object stays, marked with a
\* deletion timestamp; without one it is removed.
ClaimDeleteRequested(c) ==
    /\ pvc[c].exists /\ ~pvc[c].deleting
    /\ IF pvc[c].finalizers = {}
       THEN /\ pvc' = [pvc EXCEPT ![c] = NoClaim]
            /\ Offer("delete", c, pvc[c], pvc[c])
       ELSE LET new == [pvc[c] EXCEPT !.deleting = TRUE]
            IN /\ pvc' = [pvc EXCEPT ![c] = new]
               /\ Offer("update", c, pvc[c], new)
    /\ UNCHANGED <<dc, endpoints, exporter, gate, recVars, monVars, evt, webVars, drvVars>>

\* The finalizers of a claim are removed; a claim marked for deletion is then
\* removed by the platform.
FinalizerRemoved(c) ==
    /\ pvc[c].exists /\ pvc[c].finalizers # {}
    /\ LET new == [pvc[c] EXCEPT !.finalizers = {}]
       IN IF pvc[c].deleting
          THEN /\ pvc' = [pvc EXCEPT ![c] = NoClaim]
               /\ Offer("delete", c, new, new)
          ELSE /\ pvc' = [pvc EXCEPT ![c] = new]
               /\ Offer("update", c, pvc[c], new)
    /\ UNCHANGED <<dc, endpoints, exporter, gate, recVars, monVars, evt, webVars, drvVars>>

\* A platform that takes any resourceVersion: no write outdates another.
Outdates_LastWriterWins(d) == recStale

\* A write to configuration d by anyone but the reconciler outdates the
\* resourceVersion the reconciler may hold.
Outdates(d) == recStale \/ (recPc = "update" /\ recCfg.name = d)

\* An operator edits the configuration's policy.
ConfigEdited(d) ==
    /\ dc[d].exists
    /\ dc' = [dc EXCEPT ![d].pause = ~dc[d].pause]
    /\ recStale' = Outdates(d)
    /\ UNCHANGED <<pvc, endpoints, exporter, gate, queue, recPc, recReq, recPVC,
                   recCfg, recResult, monVars, evt, webVars, drvVars>>

\* An operator deletes the configuration.
ConfigDeleted(d) ==
    /\ dc[d].exists
    /\ dc' = [dc EXCEPT ![d] = NoConfig]
    /\ recStale' = Outdates(d)
    /\ UNCHANGED <<pvc, endpoints, exporter, gate, queue, recPc, recReq, recPVC,
                   recCfg, recResult, monVars, evt, webVars, drvVars>>

\* Another writer (a second replica, an operator) stores a status of the
\* configuration that differs in one entry.
StatusWritten(d) ==
    /\ dc[d].exists
    /\ \E c \in Claims, entry \in Phases \cup {NoEntry} :
          /\ entry # dc[d].status[c]
          /\ dc' = [dc EXCEPT ![d].status[c] = entry]
    /\ recStale' = Outdates(d)
    /\ UNCHANGED <<pvc, endpoints, exporter, gate, queue, recPc, recReq, recPVC,
                   recCfg, recResult, monVars, evt, webVars, drvVars>>

\* The platform resizes the volume to the requested size (volumes only grow).
PlatformResized(c) ==
    /\ pvc[c].exists /\ pvc[c].phase = "Bound" /\ pvc[c].req > pvc[c].cap
    /\ pvc' = [pvc EXCEPT ![c].cap = pvc[c].req]
    /\ UNCHANGED <<dc, endpoints, exporter, gate, queue, recVars, monVars, evt, webVars, drvVars>>

\* -------------------------------------------------- controller semaphore
\* controllerSemaphore(): a non-blocking try-lock on one process-wide gate.
TryLock == gate = "free"

\* Another user of the process-wide gate takes it and gives it back.
OtherAcquires ==
    /\ TryLock
    /\ gate' = "other"
    /\ UNCHANGED <<clusterVars, queue, recVars, monVars, evt, webVars, drvVars>>

OtherReleases ==
    /\ gate = "other"
    /\ gate' = "free"
    /\ UNCHANGED <<clusterVars, queue, recVars, monVars, evt, webVars, drvVars>>

\* --------------------------------------------------------------- Reconcile
\* What a call of Reconcile returned: the ctrl.Result, whether the error is
\* non-nil, and the message it logged last before returning.
NoResult == [req |-> "", requeue |-> FALSE, err |-> FALSE, log |-> ""]
NoSnapshot == [name |-> ""]

\* A busy Reconcile that asks for no requeue.
BusyResult_NoRequeue(req) ==
    [req |-> req, requeue |-> FALSE, err |-> FALSE,
     log |-> "Another operation is on going"]
\* ctrl.Result{Requeue: true}, nil
BusyResult(req) ==
    [req |-> req, requeue |-> TRUE, err |-> FALSE,
     log |-> "Another operation is on going"]
\* ctrl.Result{}, nil when the claim is not found
PVCNotFoundResult(req) ==
    [req |-> req, requeue |-> FALSE, err |-> FALSE, log |-> "PVC not found"]
\* A missing configuration answered with an error.
ConfigNotFoundResult_Error(req) ==
    [req |-> req, requeue |-> FALSE, err |-> TRUE, log |-> "PVC not found"]
\* ctrl.Result{}, nil when the configuration is not found
ConfigNotFoundResult(req) ==
    [req |-> req, requeue |-> FALSE, err |-> FALSE, log |-> "PVC not found"]
\* ctrl.Result{}, err
ErrorResult(req, log) == [req |-> req, requeue |-> FALSE, err |-> TRUE, log |-> log]
\* ctrl.Result{}, nil after the status update
UpdatedResult(req) == [req |-> req, requeue |-> FALSE, err |-> FALSE, log |-> "Updated"]

\* A status map that holds the claim's entry alone.
ReconcileStatus_Fresh(status, name, claim) ==
    [c \in Claims |-> IF c = name /\ ~claim.deleting THEN claim.phase ELSE NoEntry]

\* The status map Reconcile sends: the claim's entry removed when the claim
\* has a deletion timestamp, set to the claim's phase otherwise.
ReconcileStatus(status, name, claim) ==
    IF claim.deleting
    THEN [status EXCEPT ![name] = NoEntry]
    ELSE [status EXCEPT ![name] = claim.phase]

\* Reconcile returns: the deferred unlock runs, the locals are gone, and the
\* controller puts the key back on an error.
Return(result) ==
    /\ gate' = "free"
    /\ recPc' = "idle"
    /\ recReq' = ""
    /\ recPVC' = NoClaim
    /\ recCfg' = NoSnapshot
    /\ recStale' = FALSE
    /\ recResult' = result
    /\ queue' = IF result.err THEN queue \cup {result.req} ELSE queue

\* The semaphore is taken: Reconcile asks for a requeue and returns.
ReconcileBusy ==
    /\ recPc = "idle" /\ ~TryLock
    /\ \E req \in queue :
          /\ recResult' = BusyResult(req)
          /\ UNCHANGED queue
    /\ UNCHANGED <<clusterVars, gate, recPc, recReq, recPVC, recCfg, recStale,
                   monVars, evt, webVars, drvVars>>

\* The worker takes a key and Reconcile acquires the semaphore.
ReconcileLocks ==
    /\ recPc = "idle" /\ TryLock
    /\ \E req \in queue :
          /\ queue' = queue \ {req}
          /\ recReq' = req
    /\ gate' = "reconcile"
    /\ recPc' = "getPVC"
    /\ UNCHANGED <<clusterVars, recPVC, recCfg, recStale, recResult, monVars, evt, webVars, drvVars>>

\* r.Get of the claim.
ReconcileGetsPVC ==
    /\ recPc = "getPVC"
    /\ \/ /\ ~pvc[recReq].exists
          /\ Return(PVCNotFoundResult(recReq))
       \/ Return(ErrorResult(recReq, "Reconciling..."))
       \/ /\ pvc[recReq].exists
          /\ recPVC' = pvc[recReq]
          /\ recPc' = "getConfig"
          /\ UNCHANGED <<gate, queue, recReq, recCfg, recStale, recResult>>
    /\ UNCHANGED <<clusterVars, monVars, evt, webVars, drvVars>>

\* r.Client.Get of the configuration named by the claim's "discoblocks" label.
ReconcileGetsConfig ==
    /\ recPc = "getConfig"
    /\ LET name == recPVC.label
           found == name \in Configs /\ dc[name].exists
       IN \/ /\ ~found
             /\ Return(ConfigNotFoundResult(recReq))
          \/ Return(ErrorResult(recReq, "Unable to fetch PVC"))
          \/ /\ found
             /\ recCfg' = [name |-> name, status |-> dc[name].status]
             /\ recStale' = FALSE
             /\ recPc' = "update"
             /\ UNCHANGED <<gate, queue, recReq, recPVC, recResult>>
    /\ UNCHANGED <<clusterVars, monVars, evt, webVars, drvVars>>

\* The status map is modified and r.Client.Status().Update sends it; the
\* platform refuses an outdated resourceVersion.
ReconcileUpdatesStatus ==
    /\ recPc = "update"
    /\ \/ /\ ~recStale
          /\ dc' = [dc EXCEPT ![recCfg.name].status =
                        ReconcileStatus(recCfg.status, recReq, recPVC)]
          /\ Return(UpdatedResult(recReq))
       \/ /\ UNCHANGED dc
          /\ Return(ErrorResult(recReq, "Unable to update PVC status"))
    /\ UNCHANGED <<pvc, endpoints, exporter, monVars, evt, webVars, drvVars>>

\* ---------------------------------------------------------- MonitorVolumes
\* What an exporter's body holds after the monitor's line filter: nothing,
\* or one line; a line does not parse, or carries the value of its
\* "mountpoint" label ("" without one) and its sample value.
\* A sample value that is no number.
BadValue == 0 - 1
NoLine == [kind |-> "none"]
MalformedLine == [kind |-> "line", parses |-> FALSE, mp |-> "", val |-> BadValue]
SampleLine(mp, val) == [kind |-> "line", parses |-> TRUE, mp |-> mp, val |-> val]
ExporterLines ==
    {SampleLine("/data", v) : v \in 0..MaxCap}
        \cup {SampleLine("/data", BadValue), SampleLine("/other", 0),
              SampleLine("", 0), MalformedLine, NoLine}

\* pod.Spec.Containers[0].VolumeMounts of the pods of the cluster.
PodVolumeMounts(pod) ==
    IF pod = "pod1" THEN <<[path |-> "/data", name |-> "pvc1"]>>
    ELSE <<[path |-> "/data", name |-> "pvc2"]>>

\* The addresses of all subsets of all endpoints, in the order the loops of
\* MonitorVolumes visit them, each with its endpoint's "discoblocks" label.
RECURSIVE Addresses(_)
Addresses(eps) ==
    IF eps = <<>> THEN <<>>
    ELSE [j \in 1..Len(Head(eps).addrs) |->
              [label |-> Head(eps).label, pod |-> Head(eps).addrs[j]]]
         \o Addresses(Tail(eps))

\* discoblocks[pod]: the labels of the endpoints that list the pod.
RECURSIVE Discoblocks(_, _)
Discoblocks(addrs, pod) ==
    IF addrs = <<>> THEN <<>>
    ELSE (IF Head(addrs).pod = pod THEN <<Head(addrs).label>> ELSE <<>>)
         \o Discoblocks(Tail(addrs), pod)

\* utils.ParsePrometheusMetric fails on a malformed line.
ParsePrometheusMetric(line) == line.parses
\* utils.ParsePrometheusMetricValue fails on a value that is no number.
ParsePrometheusMetricValue(line) == line.val # BadValue

\* metrics[pod]: the lines fetched from the pod's exporter, one fetch per
\* address; fetched[i] tells whether the i-th fetch succeeded.
RECURSIVE Metrics(_, _, _, _)
Metrics(addrs, fetched, i, pod) ==
    IF i > Len(addrs) THEN <<>>
    ELSE (IF addrs[i].pod = pod /\ fetched[i] /\ exporter[pod] # NoLine
          THEN <<exporter[pod]>> ELSE <<>>)
         \o Metrics(addrs, fetched, i + 1, pod)

NoCache == [c \in Configs |-> NoConfig]
\* The copy of a configuration diskConfigCache keeps.  MonitorVolumes never
\* reads the status of a configuration, so the copy is kept without it.
Cached(config) == [config EXCEPT !.status = [c \in Claims |-> NoEntry]]
NoLog == [msg |-> "", claim |-> "", req |-> 0]
Log(msg) == [msg |-> msg, claim |-> "", req |-> 0]

\* No sample ever counts as a disk with enough room.
DiskSizeOk_Never(actual, available, pct) == FALSE

\* The comparison with the boundary on the other side.
DiskSizeOk_Inclusive(actual, available, pct) ==
    actual * pct >= hundred * (actual - available)

\* treshold > actualCapacity - available, with
\* treshold = actualCapacity * UpscaleTriggerPercentage / 100
DiskSizeOk(actual, available, pct) ==
    actual * pct > hundred * (actual - available)

\* The comparison with the maximum left out.
AtMaximum_Never(actual, max) == FALSE

\* actualCapacity.Cmp(maxCapacity) == 0
AtMaximum(actual, max) == actual = max

\* The new capacity without the cut at the maximum.
NewCapacity_NoClamp(actual, max) == GiB + actual

\* The new capacity that asks for what the claim already has.
NewCapacity_NoGrowth(actual, max) == actual

\* 1Gi added to the actual capacity, replaced by the maximum when the
\* maximum is smaller.
NewCapacity(actual, max) ==
    IF max < GiB + actual THEN max ELSE GiB + actual

\* The finalizer check left out.
IsManaged_Always(claim, cfgName) == TRUE

\* The claim carries the finalizer rendered from the configuration's name.
IsManaged(claim, cfgName) == ContainsFinalizer(claim, RenderFinalizer(cfgName))

\* The name of the first volume mount of the pod's first container at the
\* mount point, "" when there is none.
VolumeFor(pod, mountpoint) ==
    LET vms == PodVolumeMounts(pod)
        hits == {i \in 1..Len(vms) : vms[i].path = mountpoint}
    IN IF hits = {} THEN ""
       ELSE vms[CHOOSE i \in hits : \A j \in hits : i <= j].name

\* One iteration of the loop over metrics[podName]: the message it logs last
\* and, when it reaches r.Update, the claim and the storage request it sends.
\* got tells whether r.Client.Get of the claim succeeded.
SampleOutcome(line, pod, cfgName, config, got) ==
    IF ~ParsePrometheusMetric(line) THEN Log("Failed to parse metrics")
    ELSE IF line.mp = "" THEN Log("Failed to find mountpoint")
    ELSE IF line.mp # RenderMountPoint(config.pattern, cfgName, 0)
         THEN Log("other mount point")
    ELSE LET name == VolumeFor(pod, line.mp) IN
         IF name = "" THEN Log("Volume not found")
         ELSE IF ~got \/ ~pvc[name].exists THEN Log("Failed to fetch PVC")
         ELSE IF ~IsManaged(pvc[name], cfgName)
              THEN [msg |-> "PVC not managed by", claim |-> name, req |-> 0]
         ELSE IF ~ParsePrometheusMetricValue(line) THEN Log("Metric is invalid")
         ELSE IF config.max = BadQuantity THEN Log("Max capacity is invalid")
         ELSE IF DiskSizeOk(pvc[name].cap, line.val, config.pct)
              THEN [msg |-> "Disk size ok", claim |-> name, req |-> 0]
         ELSE IF AtMaximum(pvc[name].cap, config.max)
              THEN [msg |-> "New disk needed", claim |-> name, req |-> 0]
         ELSE [msg |-> "Updating PVC...", claim |-> name,
               req |-> NewCapacity(pvc[name].cap, config.max)]

\* MonitorVolumes returns; its locals are gone.
MonitorReturns ==
    /\ monPc' = "idle"
    /\ monDisco' = [p \in Pods |-> <<>>]
    /\ monMetrics' = [p \in Pods |-> <<>>]
    /\ monPodsLeft' = {}
    /\ monPod' = ""
    /\ monCfgIdx' = 0
    /\ monMetIdx' = 0
    /\ monCache' = NoCache
    /\ monIssued' = <<>>
    /\ monLog' = NoLog

\* The ticker fires: MonitorVolumes lists the endpoints and fetches the
\* metrics of every address; without any metric line it returns.
MonitorScrapes ==
    /\ monPc = "idle"
    /\ LET addrs == Addresses(endpoints) IN
       \E fetched \in [1..Len(addrs) -> BOOLEAN] :
          LET metrics == [p \in Pods |-> Metrics(addrs, fetched, 1, p)]
              disco == [p \in Pods |-> Discoblocks(addrs, p)]
          IN IF \A p \in Pods : metrics[p] = <<>>
             THEN UNCHANGED monVars
             ELSE /\ monPc' = "pods"
                  /\ monDisco' = disco
                  /\ monMetrics' = metrics
                  /\ monPodsLeft' = {p \in Pods : disco[p] # <<>>}
                  /\ UNCHANGED <<monPod, monCfgIdx, monMetIdx, monCache,
                                 monIssued, monLog>>
    /\ UNCHANGED <<clusterVars, gate, queue, recVars, evt, webVars, drvVars>>

\* A failed fetch of a pod that ends the loop over the pods.
SkipPod_Break(left, p) == {}

\* logger.Error(err, "Failed to fetch pod error"); continue: the pods the
\* loop over discoblocks still visits after the fetch of pod p failed.
SkipPod(left, p) == left \ {p}

\* The loop over discoblocks takes a pod (in no specified order) and fetches
\* it; after the last pod MonitorVolumes returns.
MonitorTakesPod ==
    /\ monPc = "pods"
    /\ IF monPodsLeft = {} THEN MonitorReturns
       ELSE \E p \in monPodsLeft, got \in BOOLEAN :
               /\ monPodsLeft' = IF got THEN monPodsLeft \ {p}
                                 ELSE SkipPod(monPodsLeft, p)
               /\ IF got
                  THEN /\ monPod' = p
                       /\ monCfgIdx' = 1
                       /\ monPc' = "configs"
                  ELSE UNCHANGED <<monPod, monCfgIdx, monPc>>
               /\ UNCHANGED <<monDisco, monMetrics, monMetIdx, monCache,
                              monIssued, monLog>>
    /\ UNCHANGED <<clusterVars, gate, queue, recVars, evt, webVars, drvVars>>

\* No configuration counts as paused.
IsPaused_Never(config) == FALSE

\* config.Spec.Policy.Pause
IsPaused(config) == config.pause

\* The loop over the pod's configuration names: the configuration comes from
\* the cache or is fetched; a failed fetch and a paused policy skip it.
MonitorTakesConfig ==
    /\ monPc = "configs"
    /\ IF monCfgIdx > Len(monDisco[monPod])
       THEN /\ monPc' = "pods"
            /\ monPod' = ""
            /\ monCfgIdx' = 0
            /\ UNCHANGED <<monCache, monMetIdx>>
       ELSE LET name == monDisco[monPod][monCfgIdx]
                cached == monCache[name].exists
            IN \E got \in BOOLEAN :
                 LET ok == cached \/ (got /\ dc[name].exists)
                     config == IF cached THEN monCache[name] ELSE Cached(dc[name])
                 IN /\ monCache' = IF ok THEN [monCache EXCEPT ![name] = config]
                                    ELSE monCache
                    /\ IF ok /\ ~IsPaused(config)
                       THEN /\ monPc' = "samples"
                            /\ monMetIdx' = 1
                            /\ UNCHANGED monCfgIdx
                       ELSE /\ monCfgIdx' = monCfgIdx + 1
                            /\ UNCHANGED <<monPc, monMetIdx>>
                    /\ UNCHANGED monPod
    /\ UNCHANGED <<monDisco, monMetrics, monPodsLeft, monIssued, monLog>>
    /\ UNCHANGED <<clusterVars, gate, queue, recVars, evt, webVars, drvVars>>

\* The loop over metrics[podName]: one sample is evaluated and, when the
\* volume needs to grow, the claim is updated.
MonitorTakesSample ==
    /\ monPc = "samples"
    /\ IF monMetIdx > Len(monMetrics[monPod])
       THEN /\ monPc' = "configs"
            /\ monCfgIdx' = monCfgIdx + 1
            /\ monMetIdx' = 0
            /\ UNCHANGED <<pvc, queue, monIssued, monLog>>
       ELSE LET cfgName == monDisco[monPod][monCfgIdx] IN
            \E got \in BOOLEAN, updated \in BOOLEAN :
               LET out == SampleOutcome(monMetrics[monPod][monMetIdx], monPod,
                                        cfgName, monCache[cfgName], got)
               IN /\ monMetIdx' = monMetIdx + 1
                  /\ monLog' = out
                  /\ UNCHANGED <<monPc, monCfgIdx>>
                  /\ IF out.msg = "Updating PVC..."
                     THEN /\ monIssued' = Append(monIssued,
                                   [claim |-> out.claim, req |-> out.req])
                          /\ IF updated
                             THEN LET new == [pvc[out.claim] EXCEPT !.req = out.req]
                                  IN /\ pvc' = [pvc EXCEPT ![out.claim] = new]
                                     /\ Offer("update", out.claim, pvc[out.claim], new)
                             ELSE UNCHANGED <<pvc, queue>>
                     ELSE UNCHANGED <<pvc, queue, monIssued>>
    /\ UNCHANGED <<monDisco, monMetrics, monPodsLeft, monPod, monCache>>
    /\ UNCHANGED <<dc, endpoints, exporter, gate, recVars, evt, webVars, drvVars>>

\* The free space of a pod's volume changes, or its exporter misbehaves.  Only
\* MonitorScrapes reads the exporters, so a change during a cycle shows as
\* one right after it.
ExporterChanged(p) ==
    /\ monPc = "idle"
    /\ \E line \in ExporterLines : exporter' = [exporter EXCEPT ![p] = line]
    /\ exporter' # exporter
    /\ UNCHANGED <<pvc, dc, endpoints, gate, queue, recVars, monVars, evt, webVars, drvVars>>

\* ------------------------------------------------ nothing in progress
\* No pod: the value of Handle's pod before a request is decoded.
NoPod ==
    [labels |-> {}, metrics |-> "", volumes |-> <<>>, containers |-> <<>>,
     scheduler |-> ""]

\* Handle has not answered.
NoResponse == [kind |-> "none", allowed |-> FALSE, code |-> 0, msg |-> "", pod |-> NoPod]

\* The pod mutator handles no request.
WebIdle ==
    /\ strict = FALSE
    /\ admRaw = NoPod
    /\ admConfigs = <<>>
    /\ admPod = NoPod
    /\ admPc = "idle"
    /\ admIdx = 0
    /\ admVolumes = <<>>
    /\ admResp = NoResponse
    /\ admCreated = {}

\* STORAGE_CLASS_JSON is not set: no document, no keys.
NoJSON ==
    [valid |-> FALSE, binding |-> [type |-> "absent", val |-> ""],
     expansion |-> [type |-> "absent", val |-> ""]]
\* No job is being rendered.
NoJob ==
    [kind |-> "none", driver |-> "none", hostPID |-> FALSE, stage |-> "none",
     pre |-> <<>>, command |-> <<>>]
\* The node a job runs on: the file system of the volume, the number of
\* containers of the pod, and the host commands that fail there.
NoHost == [fs |-> "", containers |-> 0, failing |-> {}]
\* The shell has not run the job's command; it is started with "-e".
NoRun ==
    [done |-> FALSE, status |-> 0, hangs |-> FALSE, syntax |-> FALSE,
     errexit |-> TRUE, exited |-> FALSE,
     ran |-> {}, failed |-> {}, printed |-> {}, conn |-> ";", last |-> "start"]

\* No driver is called and no job runs.
DrvIdle ==
    /\ drvEnv = NoJSON
    /\ drvOut = "none"
    /\ job = NoJob
    /\ host = NoHost
    /\ run = NoRun

\* ------------------------------------------------------------ pod mutator
\* The storage classes of the cluster: "gp3" of the EBS driver, "local" of a
\* provisioner no driver exists for; a class of any other name is not found.
StorageClass(name) ==
    CASE name = "gp3" -> [exists |-> TRUE, provisioner |-> "ebs.csi.aws.com"]
      [] name = "local" -> [exists |-> TRUE, provisioner |-> "rancher.io/local-path"]
      [] OTHER -> [exists |-> FALSE, provisioner |-> ""]

\* The provisioners a driver exists for.
SupportedProvisioners == {"ebs.csi.aws.com"}

\* utils.IsContainsAll(pod.Labels, config.Spec.PodSelector)
IsContainsAll(labels, selector) == selector \subseteq labels

\* utils.RenderResourceName(true, prefix, name, namespace): a name that is a
\* function of its parts, different for different parts.
RenderResourceName(prefix, name) == <<prefix, name>>

\* The error values Handle tells apart; NoError is Go's nil.
NoError == "nil"

\* utils.NewPVC as Handle calls it, with the storage class's provisioner:
\* the error it returns, and the name of the claim it builds.
NewPVCError(provisioner) ==
    IF provisioner \in SupportedProvisioners THEN NoError
    ELSE "unable to init a PVC"

NewPVCName(config, provisioner) == RenderResourceName(provisioner, config.name)

\* The process panics: err.Error() on a nil error.
Panic ==
    [kind |-> "panic", allowed |-> FALSE, code |-> 0,
     msg |-> "nil pointer dereference", pod |-> NoPod]

\* admission.Errored(code, err): a denial carrying err.Error().
Errored(code, err) ==
    IF err = NoError THEN Panic
    ELSE [kind |-> "errored", allowed |-> FALSE, code |-> code, msg |-> err,
          pod |-> NoPod]

\* admission.Allowed(reason): the pod is admitted as it came.
Allowed(reason) ==
    [kind |-> "allowed", allowed |-> TRUE, code |-> 200, msg |-> reason,
     pod |-> NoPod]

\* admission.PatchResponseFromRaw(req.Object.Raw, marshaledPod): the pod is
\* admitted with the patch that turns the request's pod into the mutated one.
PatchResponseFromRaw(raw, pod) ==
    [kind |-> "patch", allowed |-> TRUE, code |-> 200, msg |-> "", pod |-> pod]

\* errorMode in a mutator that always denies.
errorMode_AlwaysStrict(isStrict, code, reason, err) == Errored(code, err)

\* errorMode: a denial in strict mode, an unmodified admission otherwise.
errorMode(isStrict, code, reason, err) ==
    IF isStrict THEN Errored(code, err) ELSE Allowed(reason)

\* utils.RenderMetricsSidecar: the container of the constant template.
RenderMetricsSidecar == [name |-> "discoblocks-metrics", mounts |-> <<>>]

\* The volume Handle appends for a claim.
Volume(claim) == [name |-> claim, claim |-> claim]

\* No mount point is ever found taken.
MountPointTaken_Never(volumes, mountpoint) == FALSE

\* A mount point of volumes equals mountpoint.
MountPointTaken(volumes, mountpoint) ==
    \E i \in 1..Len(volumes) : volumes[i].mp = mountpoint

\* The containers are left without volume mounts.
AttachVolumeMounts_None(containers, volumes) == containers

\* Every container gets a volume mount for every entry of volumes.
RECURSIVE AttachVolumeMounts(_, _)
AttachVolumeMounts(containers, volumes) ==
    IF containers = <<>> THEN <<>>
    ELSE <<[Head(containers) EXCEPT
              !.mounts = Head(containers).mounts \o
                  [i \in 1..Len(volumes) |->
                      [name |-> volumes[i].name, path |-> volumes[i].mp]]]>>
         \o AttachVolumeMounts(Tail(containers), volumes)

\* a.Client.List: the configurations of the pod's namespace.
RECURSIVE ListConfigs(_, _)
ListConfigs(configs, names) ==
    IF names = <<>> THEN <<>>
    ELSE LET d == Head(names)
             rest == ListConfigs(configs, Tail(names))
         IN IF configs[d].exists
            THEN <<[name |-> d, deleting |-> configs[d].deleting,
                    selector |-> configs[d].selector, class |-> configs[d].class,
                    pattern |-> configs[d].pattern]>> \o rest
            ELSE rest

\* Handle returns resp.
Responds(resp) ==
    /\ admResp' = resp
    /\ admPc' = "done"

\* Handle is called: the request is decoded and the configurations listed.
HandleLists ==
    /\ admPc = "start"
    /\ \E decoded \in BOOLEAN, listed \in BOOLEAN :
          IF ~decoded
          THEN /\ Responds(Errored(400, "unable to decode request"))
               /\ UNCHANGED <<admPod, admConfigs, admIdx>>
          ELSE IF ~listed
          THEN /\ Responds(Errored(500, "unable to fetch configs"))
               /\ admPod' = admRaw
               /\ UNCHANGED <<admConfigs, admIdx>>
          ELSE /\ admPod' = admRaw
               /\ admConfigs' = ListConfigs(dc, <<"dc1", "dc2">>)
               /\ admIdx' = 1
               /\ admPc' = "loop"
               /\ UNCHANGED admResp
    /\ UNCHANGED <<strict, admRaw, admVolumes, admCreated>>
    /\ UNCHANGED <<clusterVars, gate, queue, recVars, monVars, evt, drvVars>>

\* No configuration counts as being deleted.
IsDeleting_Never(config) == FALSE

\* diskConfigs.Items[i].DeletionTimestamp != nil
IsDeleting(config) == config.deleting

\* One iteration of the loop over diskConfigs.Items.
HandleTakesConfig ==
    /\ admPc = "loop" /\ admIdx <= Len(admConfigs)
    /\ LET config == admConfigs[admIdx]
           sc == StorageClass(config.class)
           name == NewPVCName(config, sc.provisioner)
           mountpoint == RenderMountPoint(config.pattern, name, 0)
           labelled == [admPod EXCEPT !.metrics = config.name]
           skip == /\ admIdx' = admIdx + 1
                   /\ UNCHANGED <<admPod, admVolumes, admResp, admPc, admCreated>>
           returns(resp) == /\ Responds(resp)
                            /\ admPod' = labelled
                            /\ UNCHANGED <<admIdx, admVolumes>>
       IN IF IsDeleting(config) THEN skip
          ELSE IF ~IsContainsAll(admPod.labels, config.selector) THEN skip
          ELSE \E got \in BOOLEAN, create \in {"created", "exists", "failed"} :
             IF sc.exists /\ ~got
             THEN /\ returns(Errored(500, "unable to fetch StorageClass"))
                  /\ UNCHANGED admCreated
             ELSE IF ~sc.exists
             THEN /\ returns(errorMode(strict, 404, "StorageClass not found",
                                       "NotFound"))
                  /\ UNCHANGED admCreated
             ELSE IF NewPVCError(sc.provisioner) # NoError
             THEN /\ returns(errorMode(strict, 500, NewPVCError(sc.provisioner),
                                       NewPVCError(sc.provisioner)))
                  /\ UNCHANGED admCreated
             ELSE IF create = "failed"
             THEN /\ returns(Errored(500, "unable to create PVC"))
                  /\ UNCHANGED admCreated
             ELSE LET err == IF create = "exists" THEN "AlreadyExists" ELSE NoError
                  IN /\ admCreated' = IF create = "created"
                                      THEN admCreated \cup {name} ELSE admCreated
                     /\ IF MountPointTaken(admVolumes, mountpoint)
                        THEN returns(errorMode(strict, 500,
                                               "Unable to init a PVC", err))
                        ELSE /\ admVolumes' = Append(admVolumes,
                                     [name |-> name, mp |-> mountpoint])
                             /\ admPod' = [labelled EXCEPT
                                     !.volumes = Append(@, Volume(name))]
                             /\ admIdx' = admIdx + 1
                             /\ UNCHANGED <<admResp, admPc>>
    /\ UNCHANGED <<strict, admRaw, admConfigs>>
    /\ UNCHANGED <<clusterVars, gate, queue, recVars, monVars, evt, drvVars>>

\* After the loop: without a volume the pod is admitted as it came; with one
\* it gets the scheduler name, the metrics sidecar and the volume mounts, and
\* the response carries the patch.
HandleResponds ==
    /\ admPc = "loop" /\ admIdx > Len(admConfigs)
    /\ IF Len(admVolumes) = 0
       THEN /\ Responds(Allowed("No sidecar injection"))
            /\ UNCHANGED admPod
       ELSE LET withSidecar == Append(admPod.containers, RenderMetricsSidecar)
                pod == [admPod EXCEPT
                          !.scheduler = "discoblocks-scheduler",
                          !.containers = AttachVolumeMounts(withSidecar, admVolumes)]
            IN /\ admPod' = pod
               /\ Responds(PatchResponseFromRaw(admRaw, pod))
    /\ UNCHANGED <<strict, admRaw, admConfigs, admIdx, admVolumes, admCreated>>
    /\ UNCHANGED <<clusterVars, gate, queue, recVars, monVars, evt, drvVars>>

\* ---------------------------------------------------------- the EBS driver
\* A JSON value: its type and, for a string or a boolean, its text.  A key
\* that is missing has the value Absent.
Absent == [type |-> "absent", val |-> ""]
JSONString(s) == [type |-> "string", val |-> s]
JSONTrue == [type |-> "true", val |-> "true"]
JSONFalse == [type |-> "false", val |-> "false"]
JSONNull == [type |-> "null", val |-> "null"]

\* The value of a key of the document; a document that does not parse has
\* no keys.
Lookup(json, key) ==
    IF ~json.valid THEN Absent
    ELSE IF key = "volumeBindingMode" THEN json.binding
    ELSE IF key = "allowVolumeExpansion" THEN json.expansion
    ELSE Absent

\* fastjson.Exists
Exists(json, key) == Lookup(json, key) # Absent

\* fastjson.GetString: the string, or "" for a value that is no string.
GetString(json, key) ==
    IF Lookup(json, key).type = "string" THEN Lookup(json, key).val ELSE ""

\* fastjson.GetBool: whether the value is the literal true.
GetBool(json, key) == Lookup(json, key).type = "true"

\* A validation that looks at the binding mode alone.
IsStorageClassValid_BindingOnly(json) ==
    IF \/ ~Exists(json, "volumeBindingMode")
       \/ GetString(json, "volumeBindingMode") # "WaitForFirstConsumer"
    THEN "false"
    ELSE "true"

\* IsStorageClassValid: what the export prints to standard output.
IsStorageClassValid(json) ==
    IF \/ ~Exists(json, "volumeBindingMode")
       \/ GetString(json, "volumeBindingMode") # "WaitForFirstConsumer"
    THEN "false"
    ELSE IF \/ ~Exists(json, "allowVolumeExpansion")
            \/ ~GetBool(json, "allowVolumeExpansion")
    THEN "false"
    ELSE "true"

\* The host calls the export with STORAGE_CLASS_JSON set.
CallsIsStorageClassValid ==
    /\ drvOut = "none"
    /\ drvOut' = IsStorageClassValid(drvEnv)
    /\ UNCHANGED <<drvEnv, job, host, run>>
    /\ UNCHANGED <<clusterVars, gate, queue, recVars, monVars, evt, webVars>>

\* ---------------------------------------------------------- the host jobs
\* A shell command is a sequence of items: simple commands, tests of the
\* file-system type, echoes, operators ("&&", "||", ";", a newline), and the
\* compound commands "( ... )" / "$( ... )" and "for ... done".
Cmd(name) == [t |-> "cmd", name |-> name, body |-> <<>>]
Test(fs) == [t |-> "test", name |-> fs, body |-> <<>>]
Echo(text) == [t |-> "echo", name |-> text, body |-> <<>>]
Op(name) == [t |-> "op", name |-> name, body |-> <<>>]
Sub(body) == [t |-> "sub", name |-> "", body |-> body]
For(body) == [t |-> "for", name |-> "", body |-> body]
AND == Op("&&")
OR == Op("||")
SEMI == Op(";")
NL == Op("nl")

\* GetPreMountCommand of the EBS driver:
\* sleep infinity ; DEV=$(... mount | grep ${PV_NAME} | awk '{print $1}')
GetPreMountCommand ==
    <<Cmd("sleep infinity"), SEMI, Cmd("DEV=$(mount | grep PV_NAME)")>>

\* GetPreResizeCommand of the EBS driver calls GetPreMountCommand.
GetPreResizeCommand == GetPreMountCommand

\* The pre-command a driver answers with: none, a single discovery command
\* (a driver other than EBS), or the EBS driver's.
PreCommandOf(driver, kind) ==
    CASE driver = "ebs" ->
            IF kind = "mount" THEN GetPreMountCommand ELSE GetPreResizeCommand
      [] driver = "other" -> <<Cmd("DEV=discover")>>
      [] OTHER -> <<>>

\* mknodMountTemplate
mknodMountTemplate ==
    <<Cmd("DEV_MAJOR=$(mountinfo)"), AND, NL,
      Cmd("DEV_MINOR=$(mountinfo)"), AND, NL,
      For(<<Sub(<<Cmd("docker inspect"), OR, Cmd("crictl inspect")>>), AND, NL,
            Cmd("mkdir /dev MOUNT_POINT"), AND, NL,
            Cmd("mknod DEV"), AND, NL,
            Cmd("mount DEV MOUNT_POINT"), NL>>), AND>>

\* bindMountTemplate
bindMountTemplate == <<Cmd("mount -o bind globalmount MOUNT_POINT"), AND>>

\* fmt.Sprintf(mountCommandTemplate, pre, bind)
mountCommandTemplate(pre, bind) ==
    pre \o <<NL, Cmd("mkdir globalmount"), AND, NL,
             Cmd("mount DEV globalmount"), AND, NL>>
        \o bind \o <<NL, Echo("ok")>>

\* fmt.Sprintf(resizeCommandTemplate, pre)
resizeCommandTemplate(pre) ==
    pre \o <<NL,
             Sub(<<Cmd(":pvc:pvc"), NL,
                   Sub(<<Test("ext3"), AND, Cmd("resize2fs")>>), OR, NL,
                   Sub(<<Test("ext4"), AND, Cmd("resize2fs")>>), OR, NL,
                   Sub(<<Test("xfs"), AND, Cmd("xfs_growfs")>>), OR, NL,
                   Sub(<<Test("btrfs"), AND, Cmd("btrfs resize")>>), OR, NL,
                   Echo("unsupported file-system"), NL>>),
             AND, NL, Echo("ok")>>

\* hostCommandReplacePattern.ReplaceAll(command, hostCommandPrefix): every
\* newline is followed by the indentation of the manifest.
RECURSIVE ReplaceAll(_)
ReplaceAll(command) ==
    IF command = <<>> THEN <<>>
    ELSE LET it == Head(command)
             new == IF it = NL THEN Op("nl-indent")
                    ELSE [it EXCEPT !.body = ReplaceAll(it.body)]
         IN <<new>> \o ReplaceAll(Tail(command))

\* if pre != "" { pre += " && " }
JoinPre(pre) == IF pre # <<>> THEN pre \o <<AND>> ELSE pre

\* RenderMountJob: the command of the mount job.
RenderMountJob(preMountCommand, hostPID) ==
    LET bindMount == IF hostPID THEN bindMountTemplate ELSE mknodMountTemplate
    IN ReplaceAll(mountCommandTemplate(JoinPre(preMountCommand), bindMount))

\* RenderResizeJob: the command of the resize job.
RenderResizeJob(preResizeCommand) ==
    ReplaceAll(resizeCommandTemplate(JoinPre(preResizeCommand)))

\* ---------------------------------------------------------------- the shell
\* How the shell runs a command ("bash -exc").  "&&" and "||" have the same
\* precedence and associate to the left; ";" and a newline after a command
\* end the list; a newline after "&&" or "||" continues it.  With "-e" the
\* shell exits when a command fails, unless the command is followed by "&&"
\* or "||" or is part of a compound command that is.
IsNewline(it) == it.t = "op" /\ it.name \in {"nl", "nl-indent"}

\* An operator is read.
Connect(st, it) ==
    IF IsNewline(it)
    THEN IF st.last = "cmd" THEN [st EXCEPT !.conn = ";", !.last = "sep"] ELSE st
    ELSE IF it.name = ";" THEN [st EXCEPT !.conn = ";", !.last = "sep"]
    ELSE [st EXCEPT !.conn = it.name, !.last = "op"]

\* Whether the next command of the list runs.
Runs(st) ==
    CASE st.conn = "&&" -> st.status = 0
      [] st.conn = "||" -> st.status # 0
      [] OTHER -> TRUE

\* The exit status of a simple command on the host; ":pvc:pvc" is no command.
CmdStatus(name, h) ==
    IF name = ":pvc:pvc" THEN 127
    ELSE IF name \in h.failing THEN 1
    ELSE 0

\* The shell has run a simple command, a test or an echo.
Finished(st, name, status) ==
    [st EXCEPT !.status = status,
               !.ran = @ \cup {name},
               !.failed = IF status # 0 THEN @ \cup {name} ELSE @]

\* A command with an operator missing before or after it: "&&", "||" or ";"
\* at the start, after another operator, or "&&", "||" at the end.
RECURSIVE Dangling(_, _)
Dangling(items, last) ==
    IF items = <<>> THEN last = "op"
    ELSE LET it == Head(items)
             rest == Tail(items)
         IN IF IsNewline(it)
            THEN Dangling(rest, IF last = "cmd" THEN "sep" ELSE last)
            ELSE IF it.t = "op"
            THEN last # "cmd"
                 \/ Dangling(rest, IF it.name = ";" THEN "sep" ELSE "op")
            ELSE (it.t \in {"sub", "for"} /\ Dangling(it.body, "start"))
                 \/ Dangling(rest, "cmd")

\* The command before items is followed by "&&" or "||".
FollowedByAndOr(items) ==
    items # <<>> /\ Head(items).t = "op" /\ Head(items).name \in {"&&", "||"}

RECURSIVE Exec(_, _, _)
RECURSIVE Repeat(_, _, _, _)

\* The shell runs one command of a list.
RunItem(it, st, h) ==
    CASE it.t = "cmd" ->
            IF it.name = "sleep infinity"
            THEN [st EXCEPT !.hangs = TRUE, !.ran = @ \cup {it.name}]
            ELSE Finished(st, it.name, CmdStatus(it.name, h))
      [] it.t = "test" ->
            Finished(st, it.name, IF h.fs = it.name THEN 0 ELSE 1)
      [] it.t = "echo" ->
            [Finished(st, it.name, 0) EXCEPT !.printed = @ \cup {it.name}]
      [] it.t = "sub" ->
            [Exec(it.body, [st EXCEPT !.conn = ";", !.last = "start"], h)
                EXCEPT !.exited = st.exited]
      [] OTHER ->
            Repeat(it.body, h.containers, [st EXCEPT !.status = 0], h)

\* for CONTAINER_ID in ${CONTAINER_IDS}; do body; done
Repeat(body, n, st, h) ==
    IF n = 0 \/ st.hangs \/ st.exited THEN st
    ELSE Repeat(body, n - 1,
                Exec(body, [st EXCEPT !.conn = ";", !.last = "start"], h), h)

\* The shell runs a list from its first item.
Exec(items, st, h) ==
    IF items = <<>> \/ st.hangs \/ st.exited THEN st
    ELSE LET it == Head(items)
             rest == Tail(items)
             checked == st.errexit /\ ~FollowedByAndOr(rest)
             after == IF Runs(st)
                      THEN RunItem(it, [st EXCEPT !.errexit = checked], h)
                      ELSE st
             exits == Runs(st) /\ checked /\ ~after.hangs /\ after.status # 0
         IN IF it.t = "op" THEN Exec(rest, Connect(st, it), h)
            ELSE Exec(rest,
                      [after EXCEPT !.errexit = st.errexit,
                                    !.exited = after.exited \/ exits,
                                    !.conn = st.conn, !.last = "cmd"], h)

\* bash -exc command: a command that does not parse runs nothing.
Shell(command, h) ==
    IF Dangling(command, "start")
    THEN [NoRun EXCEPT !.done = TRUE, !.status = 2, !.syntax = TRUE]
    ELSE [Exec(command, NoRun, h) EXCEPT !.done = TRUE]

\* The driver is asked for its pre-command.
GetsPreCommand ==
    /\ job.stage = "requested"
    /\ job' = [job EXCEPT !.pre = PreCommandOf(job.driver, job.kind),
                          !.stage = "driver answered"]
    /\ UNCHANGED <<drvEnv, drvOut, host, run>>
    /\ UNCHANGED <<clusterVars, gate, queue, recVars, monVars, evt, webVars>>

\* The mount job is rendered.
RendersMountJob ==
    /\ job.stage = "driver answered" /\ job.kind = "mount"
    /\ job' = [job EXCEPT !.command = RenderMountJob(job.pre, job.hostPID),
                          !.stage = "rendered"]
    /\ UNCHANGED <<drvEnv, drvOut, host, run>>
    /\ UNCHANGED <<clusterVars, gate, queue, recVars, monVars, evt, webVars>>

\* The resize job is rendered.
RendersResizeJob ==
    /\ job.stage = "driver answered" /\ job.kind = "resize"
    /\ job' = [job EXCEPT !.command = RenderResizeJob(job.pre),
                          !.stage = "rendered"]
    /\ UNCHANGED <<drvEnv, drvOut, host, run>>
    /\ UNCHANGED <<clusterVars, gate, queue, recVars, monVars, evt, webVars>>

\* The job's container runs the command on the host.
RunsJob ==
    /\ job.stage = "rendered" /\ ~run.done
    /\ run' = Shell(job.command, host)
    /\ UNCHANGED <<drvEnv, drvOut, job, host>>
    /\ UNCHANGED <<clusterVars, gate, queue, recVars, monVars, evt, webVars>>

\* ------------------------------------------------------------ the monitor
\* The monitor alone, on a cluster whose claims are bound: one endpoint of
\* configuration dc1 listing two pods, each mounting its own claim.  The
\* claim, the configuration and the free space of pod1 vary; pod2's volume
\* is full, and its claim belongs to dc1 or to a configuration that is gone.
BoundClaim(config, finalizers, capacity) ==
    [exists |-> TRUE, finalizers |-> finalizers, label |-> config,
     deleting |-> FALSE, phase |-> "Bound", cap |-> capacity, req |-> capacity]

Config(pause, max, pct) ==
    [exists |-> TRUE, pause |-> pause, max |-> max, pct |-> pct,
     pattern |-> "/data", status |-> [c \in Claims |-> NoEntry],
     deleting |-> FALSE, selector |-> {}, class |-> "gp3"]

\* The reconciler and the monitor are idle.
CtlIdle ==
    /\ gate = "free"
    /\ queue = {}
    /\ recPc = "idle"
    /\ recReq = ""
    /\ recPVC = NoClaim
    /\ recCfg = NoSnapshot
    /\ recStale = FALSE
    /\ recResult = NoResult
    /\ monPc = "idle"
    /\ monDisco = [p \in Pods |-> <<>>]
    /\ monMetrics = [p \in Pods |-> <<>>]
    /\ monPodsLeft = {}
    /\ monPod = ""
    /\ monCfgIdx = 0
    /\ monMetIdx = 0
    /\ monCache = NoCache
    /\ monIssued = <<>>
    /\ monLog = NoLog
    /\ evt = NoEvent

IdleInit == CtlIdle /\ WebIdle /\ DrvIdle

InitMonitor ==
    /\ \E cap \in 1..MaxCap, d \in Configs :
          pvc = [c \in Claims |->
                    IF c = "pvc1"
                    THEN BoundClaim("dc1", {RenderFinalizer("dc1")}, cap)
                    ELSE BoundClaim(d, {RenderFinalizer(d)}, GiB)]
    /\ \E pause \in BOOLEAN, max \in MaxQuantities, pct \in Percentages :
          dc = [d \in Configs |->
                   IF d = "dc1" THEN Config(pause, max, pct) ELSE NoConfig]
    /\ endpoints = <<[label |-> "dc1", addrs |-> <<"pod1", "pod2">>]>>
    /\ \E line \in ExporterLines, full \in {SampleLine("/data", 0), NoLine} :
          exporter = [p \in Pods |-> IF p = "pod1" THEN line ELSE full]
    /\ IdleInit

NextMonitor ==
    \/ MonitorScrapes
    \/ MonitorTakesPod
    \/ MonitorTakesConfig
    \/ MonitorTakesSample
    \/ \E c \in Claims : PlatformResized(c)
    \/ FinalizerRemoved("pvc1")
    \/ ExporterChanged("pod1")

SpecMonitor == InitMonitor /\ [][NextMonitor]_vars

\* --------------------------------------------------------- the controller
\* The reconciler, the monitor and the cluster together.  Claim pvc1 comes
\* and goes; pvc2 is a bound claim of dc1 that dc1's status already lists.
Init ==
    /\ pvc = [c \in Claims |->
                 IF c = "pvc1" THEN NoClaim
                 ELSE BoundClaim("dc1", {RenderFinalizer("dc1")}, GiB)]
    /\ dc = [d \in Configs |->
                IF d = "dc1"
                THEN [Config(FALSE, GiB + 1, 50) EXCEPT !.status["pvc2"] = "Bound"]
                ELSE NoConfig]
    /\ endpoints = <<[label |-> "dc1", addrs |-> <<"pod1">>]>>
    /\ exporter = [p \in Pods |->
                      IF p = "pod1" THEN SampleLine("/data", 0) ELSE NoLine]
    /\ IdleInit

Next ==
    \/ ClaimCreated("pvc1")
    \/ ClaimBound("pvc1")
    \/ ClaimTouched("pvc1")
    \/ ClaimDeleteRequested("pvc1")
    \/ FinalizerRemoved("pvc1")
    \/ ConfigEdited("dc1")
    \/ ConfigDeleted("dc1")
    \/ OtherAcquires
    \/ OtherReleases
    \/ ReconcileBusy
    \/ ReconcileLocks
    \/ ReconcileGetsPVC
    \/ ReconcileGetsConfig
    \/ ReconcileUpdatesStatus
    \/ MonitorScrapes
    \/ MonitorTakesPod
    \/ MonitorTakesConfig
    \/ MonitorTakesSample

Spec == Init /\ [][Next]_vars

\* -------------------------------------------------------- the filter alone
\* The objects an event may carry: something that is no claim, or a claim
\* with any finalizers, label, deletion mark and phase.
EventObjects ==
    {NotAClaim} \cup
    [isClaim : {TRUE},
     finalizers : SUBSET {RenderFinalizer(d) : d \in Configs},
     label : Configs \cup {""},
     deleting : BOOLEAN,
     phase : Phases]

\* An event waits for the filter's verdict.
Pending(kind, old, new) ==
    [kind |-> kind, old |-> old, new |-> new, done |-> FALSE, admit |-> FALSE]

InitFilter ==
    /\ pvc = [c \in Claims |-> NoClaim]
    /\ dc = [d \in Configs |-> NoConfig]
    /\ endpoints = <<>>
    /\ exporter = [p \in Pods |-> NoLine]
    /\ gate = "free"
    /\ queue = {}
    /\ recPc = "idle"
    /\ recReq = ""
    /\ recPVC = NoClaim
    /\ recCfg = NoSnapshot
    /\ recStale = FALSE
    /\ recResult = NoResult
    /\ monPc = "idle"
    /\ monDisco = [p \in Pods |-> <<>>]
    /\ monMetrics = [p \in Pods |-> <<>>]
    /\ monPodsLeft = {}
    /\ monPod = ""
    /\ monCfgIdx = 0
    /\ monMetIdx = 0
    /\ monCache = NoCache
    /\ monIssued = <<>>
    /\ monLog = NoLog
    /\ WebIdle
    /\ DrvIdle
    /\ \E old \in EventObjects, new \in EventObjects :
          \/ evt = Pending("update", old, new)
          \/ \E kind \in {"create", "delete", "generic"} :
                old = new /\ evt = Pending(kind, new, new)

CreateEvent ==
    /\ evt.kind = "create" /\ ~evt.done
    /\ evt' = [evt EXCEPT !.done = TRUE, !.admit = FilterCreate(evt.new)]
    /\ UNCHANGED <<clusterVars, gate, queue, recVars, monVars, webVars, drvVars>>

UpdateEvent ==
    /\ evt.kind = "update" /\ ~evt.done
    /\ evt' = [evt EXCEPT !.done = TRUE, !.admit = FilterUpdate(evt.old, evt.new)]
    /\ UNCHANGED <<clusterVars, gate, queue, recVars, monVars, webVars, drvVars>>

DeleteEvent ==
    /\ evt.kind = "delete" /\ ~evt.done
    /\ evt' = [evt EXCEPT !.done = TRUE, !.admit = FilterDelete(evt.new)]
    /\ UNCHANGED <<clusterVars, gate, queue, recVars, monVars, webVars, drvVars>>

GenericEvent ==
    /\ evt.kind = "generic" /\ ~evt.done
    /\ evt' = [evt EXCEPT !.done = TRUE, !.admit = FilterGeneric(evt.new)]
    /\ UNCHANGED <<clusterVars, gate, queue, recVars, monVars, webVars, drvVars>>

NextFilter == CreateEvent \/ UpdateEvent \/ DeleteEvent \/ GenericEvent

SpecFilter == InitFilter /\ [][NextFilter]_vars

\* ------------------------------------------------- properties: the monitor
Min(a, b) == IF a < b THEN a ELSE b

\* The sample, the configuration name and the configuration of the
\* iteration MonitorVolumes is about to run.
CurLine == monMetrics[monPod][monMetIdx]
CurCfgName == monDisco[monPod][monCfgIdx]
CurCfg == monCache[CurCfgName]

\* This step runs one iteration of the loop over metrics[podName].
EvaluatesSample ==
    /\ monPc = "samples"
    /\ monMetIdx <= Len(monMetrics[monPod])
    /\ monMetIdx' = monMetIdx + 1

\* The sample of this iteration resolves to claim c: its mount point is the
\* one rendered from the configuration, the pod mounts c there, and c is
\* fetched.
ResolvesTo(c) ==
    /\ CurLine.parses
    /\ CurLine.mp # ""
    /\ CurLine.mp = CurCfg.pattern
    /\ \E i \in 1..Len(PodVolumeMounts(monPod)) :
          /\ PodVolumeMounts(monPod)[i].path = CurLine.mp
          /\ PodVolumeMounts(monPod)[i].name = c
    /\ pvc[c].exists
    /\ monLog'.msg # "Failed to fetch PVC"

\* The sample's value and the configured maximum are quantities.
Quantified == CurLine.val # BadValue /\ CurCfg.max # BadQuantity

\* This step sends an update of claim c.
IssuesUpdateOf(c) ==
    /\ Len(monIssued') = Len(monIssued) + 1
    /\ monIssued'[Len(monIssued')].claim = c

\* available < actualCapacity - actualCapacity * pct / 100
BelowThreshold(available, actual, pct) ==
    hundred * available < hundred * actual - actual * pct

\* available = actualCapacity - actualCapacity * pct / 100
AtThreshold(available, actual, pct) ==
    hundred * available = hundred * actual - actual * pct

C2_NoUpdateAtOrAbove ==
    [][\A c \in Claims :
          (/\ EvaluatesSample
           /\ ResolvesTo(c)
           /\ Quantified
           /\ ~BelowThreshold(CurLine.val, pvc[c].cap, CurCfg.pct))
          => monIssued' = monIssued /\ pvc' = pvc]_vars

\* C2, amended: a sample with available strictly above actual - actual*pct/100
\* makes MonitorVolumes send no update; at the boundary the claim is handled
\* as one that needs to grow (updated unless it is at the maximum).
C2_NoUpdateAbove ==
    [][\A c \in Claims :
          (/\ EvaluatesSample
           /\ ResolvesTo(c)
           /\ Quantified)
          => /\ (/\ ~BelowThreshold(CurLine.val, pvc[c].cap, CurCfg.pct)
                 /\ ~AtThreshold(CurLine.val, pvc[c].cap, CurCfg.pct))
                => monIssued' = monIssued /\ pvc' = pvc
             /\ (/\ AtThreshold(CurLine.val, pvc[c].cap, CurCfg.pct)
                 /\ RenderFinalizer(CurCfgName) \in pvc[c].finalizers
                 /\ pvc[c].cap # CurCfg.max)
                => IssuesUpdateOf(c)]_vars

\* A sample with available strictly above the boundary was found to be fine.
C2_Witness ==
    /\ monLog.msg = "Disk size ok"
    /\ monLog.claim = "pvc1"
    /\ exporter["pod1"].kind = "line"
    /\ exporter["pod1"].val # BadValue
    /\ hundred * exporter["pod1"].val
          > hundred * pvc["pvc1"].cap - pvc["pvc1"].cap * dc["dc1"].pct

\* C3: once a claim's actual capacity equals its configuration's maximum, no
\* step sends an update of the claim or changes its request, and the
\* capacity stays at the maximum.
C3_CeilingIdempotent ==
    [][\A c \in Claims :
          (/\ pvc[c].exists
           /\ pvc[c].label \in Configs
           /\ dc[pvc[c].label].exists
           /\ pvc[c].cap = dc[pvc[c].label].max)
          => /\ ~IssuesUpdateOf(c)
             /\ pvc'[c].req = pvc[c].req
             /\ pvc'[c].cap = pvc[c].cap]_vars

\* A sample of a full volume was evaluated for a claim at the maximum.
C3_Witness ==
    /\ monLog.msg = "New disk needed"
    /\ monLog.claim = "pvc1"
    /\ pvc["pvc1"].cap = dc["dc1"].max
    /\ exporter["pod1"] = SampleLine("/data", 0)

\* C5: an iteration of MonitorVolumes leaves every claim unchanged that does
\* not carry the finalizer rendered from the configuration it evaluates, and
\* sends no update of it.
C5_UnmanagedUntouched ==
    [][EvaluatesSample =>
          \A c \in Claims :
             RenderFinalizer(CurCfgName) \notin pvc[c].finalizers
             => pvc'[c] = pvc[c] /\ ~IssuesUpdateOf(c)]_vars

\* A full volume's sample resolved to a claim without the finalizer.
C5_Witness ==
    /\ monLog.msg = "PVC not managed by"
    /\ monLog.claim = "pvc1"
    /\ pvc["pvc1"].finalizers = {}
    /\ exporter["pod1"] = SampleLine("/data", 0)
    /\ dc["dc1"].max # BadQuantity
    /\ pvc["pvc1"].cap < dc["dc1"].max

\* --------------------------------------------- properties: the reconciler
\* C4: a reconcile that holds the gate and a monitor cycle never run at the
\* same time: whenever Reconcile is past the semaphore, MonitorVolumes is not
\* inside a cycle.
C4_MutualExclusion == ~(recPc # "idle" /\ gate = "reconcile" /\ monPc # "idle")

\* This step is Reconcile's status update going through.
WritesStatus ==
    /\ recPc = "update"
    /\ recPc' = "idle"
    /\ recResult'.log = "Updated"

\* C6: Reconcile writes a configuration's status only for a claim that
\* carried that configuration's finalizer when Reconcile fetched it.
C6_ReconcilesManagedOnly ==
    [][WritesStatus => RenderFinalizer(recCfg.name) \in recPVC.finalizers]_vars

\* C7: a Reconcile that fetched the claim and its configuration and returns
\* without error has stored the configuration's status with the claim's entry
\* removed (claim marked for deletion) or equal to the claim's phase as
\* fetched, and every other entry as it was; it asks for no requeue.
C7_StatusMirrored ==
    [][(recPc = "update" /\ recPc' = "idle" /\ ~recResult'.err)
       => /\ dc'[recCfg.name].exists
          /\ dc'[recCfg.name].status[recReq] =
                (IF recPVC.deleting THEN NoEntry ELSE recPVC.phase)
          /\ \A c \in Claims \ {recReq} :
                dc'[recCfg.name].status[c] = dc[recCfg.name].status[c]
          /\ \A d \in Configs \ {recCfg.name} : dc'[d] = dc[d]
          /\ ~recResult'.requeue]_vars

\* Reconcile has stored the phase of pvc1 next to the entry of pvc2.
C7_Witness ==
    /\ recResult = UpdatedResult("pvc1")
    /\ dc["dc1"].status["pvc1"] = "Bound"
    /\ dc["dc1"].status["pvc2"] = "Bound"

\* This step is Reconcile returning from a fetch answered with "not found":
\* of the claim, or of the configuration the claim's label names.
FindsNothing ==
    /\ recPc' = "idle"
    /\ recResult'.log = "PVC not found"
    /\ \/ recPc = "getPVC" /\ ~pvc[recReq].exists
       \/ /\ recPc = "getConfig"
          /\ ~(recPVC.label \in Configs /\ dc[recPVC.label].exists)

\* C8: when the claim, or the configuration its label names, is not found,
\* Reconcile returns no error and no requeue, and writes nothing.
C8_NotFoundIsNoError ==
    [][FindsNothing
       => /\ gate' = "free"
          /\ ~recResult'.err
          /\ ~recResult'.requeue
          /\ dc' = dc
          /\ pvc' = pvc
          /\ queue' = queue]_vars

\* Reconcile returned from a claim whose configuration does not exist.
C8_Witness ==
    /\ recResult = ConfigNotFoundResult("pvc1")
    /\ recPc = "idle"
    /\ pvc["pvc1"].exists
    /\ pvc["pvc1"].label = "dc2"
    /\ ~dc["dc2"].exists

\* ------------------------------------------------ properties: the filter
\* C9: an update event is admitted only when the new claim carries the
\* finalizer of its label and the deletion mark or the phase differs between
\* the old and the new object.
C9_UpdateOnlyOnChange ==
    (evt.kind = "update" /\ evt.done /\ evt.admit)
    => /\ evt.new.isClaim /\ evt.old.isClaim
       /\ RenderFinalizer(evt.new.label) \in evt.new.finalizers
       /\ \/ evt.old.deleting # evt.new.deleting
          \/ evt.old.phase # evt.new.phase

\* C10: a create event is admitted exactly when its object is a claim that
\* carries the finalizer rendered from its own label; delete and generic
\* events are never admitted.
C10_CreateIffFinalizer ==
    evt.kind # "none" /\ evt.done
    => /\ evt.kind = "create"
          => (evt.admit <=>
                (/\ evt.new.isClaim
                 /\ RenderFinalizer(evt.new.label) \in evt.new.finalizers))
       /\ evt.kind \in {"delete", "generic"} => ~evt.admit

\* A create event of a claim with its finalizer was admitted.
C10_Witness ==
    /\ evt.kind = "create" /\ evt.done /\ evt.admit
    /\ evt.new.isClaim
    /\ evt.new.label = "dc1"
    /\ evt.new.finalizers = {RenderFinalizer("dc1")}

\* ------------------------------------------------------ the gate, fairly
\* The reconciler and the other users of the gate, without the monitor.  The
\* worker goroutine runs, every API call returns within its deadline, and a
\* holder of the gate gives it back.

NextGate ==
    \/ ClaimCreated("pvc1")
    \/ ClaimBound("pvc1")
    \/ ClaimDeleteRequested("pvc1")
    \/ FinalizerRemoved("pvc1")
    \/ OtherAcquires
    \/ OtherReleases
    \/ ReconcileBusy
    \/ ReconcileLocks
    \/ ReconcileGetsPVC
    \/ ReconcileGetsConfig
    \/ ReconcileUpdatesStatus

SpecGate ==
    /\ Init
    /\ [][NextGate]_vars
    /\ WF_vars(OtherReleases)
    /\ WF_vars(ReconcileBusy)
    /\ WF_vars(ReconcileLocks)
    /\ WF_vars(ReconcileGetsPVC)
    /\ WF_vars(ReconcileGetsConfig)
    /\ WF_vars(ReconcileUpdatesStatus)

\* --------------------------------------------------- properties: the gate
\* This step is a call of Reconcile that found the gate taken.
ReturnsBusy == recPc = "idle" /\ gate # "free" /\ recResult' # recResult

\* Reconcile's last answer for claim c was a requeue, and c waits in the queue.
Requeued(c) == recResult.requeue /\ recResult.req = c /\ c \in queue

\* Reconcile holds the gate for claim c.
Acquired(c) == gate = "reconcile" /\ recReq = c

\* A call that finds the gate taken returns at once with a requeue request
\* and no error, and reads and writes nothing.
NeverBlocks ==
    [][ReturnsBusy =>
          /\ recResult'.requeue /\ ~recResult'.err
          /\ UNCHANGED <<pvc, dc, gate, queue, recPc, recPVC, recCfg>>]_vars

\* C11 as stated: a busy Reconcile returns at once with a requeue and no
\* error, touching nothing, and a requeued reconcile eventually acquires the
\* gate, every holder giving the gate back eventually.
C11_RequeuedEventuallyAcquires ==
    /\ NeverBlocks
    /\ \A c \in Claims : Requeued(c) ~> Acquired(c)

\* C11, amended: a busy Reconcile returns at once with a requeue and no
\* error, touching nothing; and a requeued reconcile acquires the gate once
\* the other users stop taking it.
C11_RequeuedAcquiresOnceLeftFree ==
    /\ NeverBlocks
    /\ \A c \in Claims :
          <>[](gate # "other") => (Requeued(c) ~> Acquired(c))

\* A reconcile that was requeued because the gate was taken holds the gate.
C11_Witness ==
    /\ gate = "reconcile" /\ recReq = "pvc1"
    /\ recResult = BusyResult("pvc1")

\* ------------------------------------- properties: the trigger percentage
\* The free fraction available / actualCapacity is below pct / 100.
FreeFractionBelow(available, actual, pct) == hundred * available < actual * pct

\* The used fraction (actualCapacity - available) / actualCapacity is at or
\* above pct / 100.
UsedFractionAtOrAbove(available, actual, pct) ==
    hundred * (actual - available) >= actual * pct

\* C12 as stated: an update of a claim is issued only for a sample whose free
\* fraction of the claim's capacity is below the trigger percentage.
C12_TriggerIsFreeFraction ==
    [][\A c \in Claims :
          (EvaluatesSample /\ IssuesUpdateOf(c))
          => FreeFractionBelow(CurLine.val, pvc[c].cap, CurCfg.pct)]_vars

\* C12, amended: an update of a claim is issued only for a sample whose used
\* fraction of the claim's capacity is at or above the trigger percentage;
\* none is issued while the used fraction is below it.
C12_TriggerIsUsedFraction ==
    [][\A c \in Claims :
          (EvaluatesSample /\ IssuesUpdateOf(c))
          => UsedFractionAtOrAbove(CurLine.val, pvc[c].cap, CurCfg.pct)]_vars

\* An update was issued for a claim of 1Gi with half of it free, at a
\* trigger percentage of 25.
C12_Witness ==
    /\ monPc = "samples"
    /\ monLog.msg = "Updating PVC..."
    /\ monLog.claim = "pvc1"
    /\ Len(monIssued) > 0
    /\ monIssued[Len(monIssued)].claim = "pvc1"
    /\ monCache["dc1"].exists /\ monCache["dc1"].pct = 25
    /\ monMetIdx = 2
    /\ monMetrics[monPod][1] = SampleLine("/data", 1)
    /\ pvc["pvc1"].cap = GiB

\* ------------------------------------------- properties: a paused policy
\* C13: no update of a claim is issued while the monitor evaluates the
\* samples of a pod for a configuration whose policy is paused, whatever the
\* samples say; the samples of such a pair are not even evaluated.
C13_PausedNeverResizes ==
    [][/\ \A c \in Claims :
             (EvaluatesSample /\ IssuesUpdateOf(c))
             => (~CurCfg.pause /\ ~dc[CurCfgName].pause)
       /\ (monPc' = "samples" /\ monMetIdx' <= Len(monMetrics'[monPod']))
          => ~monCache'[monDisco'[monPod'][monCfgIdx']].pause]_vars

\* The monitor fetched paused dc1 for pod1, whose volume is full and could
\* grow, and moved on to the next configuration without an update.
C13_Witness ==
    /\ monPc = "configs" /\ monPod = "pod1" /\ monCfgIdx = 2
    /\ monCache["dc1"].exists /\ monCache["dc1"].pause
    /\ monCache["dc1"].max = MaxCap /\ pvc["pvc1"].cap = 1
    /\ ContainsFinalizer(pvc["pvc1"], RenderFinalizer("dc1"))
    /\ monMetrics["pod1"] = <<SampleLine("/data", 0)>>
    /\ monIssued = <<>>

\* ----------------------------------------------------- the pod mutator alone
\* One admission request on a cluster of up to two configurations.  The pod's
\* labels, the mode of the mutator, and each configuration's selector,
\* storage class, mount point pattern and deletion mark vary.
PodLabelSets == {{}, {"app"}, {"app", "tier"}}
Selectors == {{}, {"app"}, {"tier"}}
ClassNames == {"gp3", "local", "missing"}
Patterns == {"/data", "/logs"}

AdmissionConfigs ==
    {NoConfig} \cup
    {[Config(FALSE, MaxCap, 50) EXCEPT
        !.deleting = del, !.selector = sel, !.class = cls, !.pattern = pat] :
        del \in BOOLEAN, sel \in Selectors, cls \in ClassNames, pat \in Patterns}

\* The pod of the request: one container, no volume.
RequestPod(labels) ==
    [labels |-> labels, metrics |-> "", volumes |-> <<>>,
     containers |-> <<[name |-> "app", mounts |-> <<>>]>>,
     scheduler |-> "default-scheduler"]

InitAdmission ==
    /\ pvc = [c \in Claims |-> NoClaim]
    /\ dc \in [Configs -> AdmissionConfigs]
    /\ endpoints = <<>>
    /\ exporter = [p \in Pods |-> NoLine]
    /\ CtlIdle
    /\ DrvIdle
    /\ strict \in BOOLEAN
    /\ \E labels \in PodLabelSets : admRaw = RequestPod(labels)
    /\ admConfigs = <<>>
    /\ admPod = NoPod
    /\ admPc = "start"
    /\ admIdx = 0
    /\ admVolumes = <<>>
    /\ admResp = NoResponse
    /\ admCreated = {}

NextAdmission ==
    \/ HandleLists
    \/ HandleTakesConfig
    \/ HandleResponds

SpecAdmission == InitAdmission /\ [][NextAdmission]_vars

\* --------------------------------------------- properties: the pod mutator
\* The configuration of the loop's current iteration, and whether it matches
\* the pod.
CurItem == admConfigs[admIdx]
InLoop == admPc = "loop" /\ admIdx <= Len(admConfigs)
Matches(config) == ~config.deleting /\ IsContainsAll(admRaw.labels, config.selector)

\* The response denies the pod; the response admits the pod without a patch.
Denies(resp) == resp.kind = "errored" /\ ~resp.allowed
AdmitsUnmodified(resp) == resp.kind = "allowed" /\ resp.allowed /\ resp.pod = NoPod

\* The storage class of a configuration is not found; it is found, and no
\* claim can be built for its provisioner.
ClassNotFound(config) == ~StorageClass(config.class).exists
ClaimNotBuilt(config) ==
    /\ StorageClass(config.class).exists
    /\ StorageClass(config.class).provisioner \notin SupportedProvisioners

\* C14: when the storage class of a matching configuration is not found, or
\* it is fetched and building the claim fails, Handle returns at once: a
\* denial in strict mode, an admission without patch otherwise.
C14_FailurePolicy ==
    [][(/\ InLoop /\ Matches(CurItem)
        /\ ClassNotFound(CurItem) \/ ClaimNotBuilt(CurItem)
        /\ admResp' # Errored(500, "unable to fetch StorageClass"))
       => /\ admPc' = "done"
          /\ IF strict THEN Denies(admResp') ELSE AdmitsUnmodified(admResp')]_vars

\* A non-strict mutator admitted a pod whose configuration names a storage
\* class that does not exist.
C14_Witness ==
    /\ admPc = "done" /\ ~strict
    /\ admIdx = 1 /\ Len(admConfigs) = 2
    /\ Matches(admConfigs[1]) /\ ClassNotFound(admConfigs[1])
    /\ admResp = Allowed("StorageClass not found")

\* The pod is not admitted: Handle answers with a denial, or it panics and,
\* the webhook being registered with failurePolicy=fail, the request fails.
NotAdmitted(resp) == resp.kind \in {"errored", "panic"} /\ ~resp.allowed

\* The current iteration gets as far as the mount point check: the storage
\* class is fetched, the claim is built, and it is created or exists.
ReachesMountPointCheck ==
    /\ InLoop /\ Matches(CurItem)
    /\ ~ClassNotFound(CurItem) /\ ~ClaimNotBuilt(CurItem)
    /\ admResp' # Errored(500, "unable to fetch StorageClass")
    /\ admResp' # Errored(500, "unable to create PVC")

\* The mount point of the current iteration is the one of an earlier claim.
Collides ==
    \E i \in 1..Len(admVolumes) :
       admVolumes[i].mp = RenderMountPoint(CurItem.pattern, "", 0)

\* The paths of a container's volume mounts are pairwise different.
DistinctPaths(container) ==
    \A i, j \in 1..Len(container.mounts) :
       container.mounts[i].path = container.mounts[j].path => i = j

NoApiFailure ==
    /\ admPc = "done"
    /\ admResp.msg \notin {"unable to decode request", "unable to fetch configs",
                          "unable to fetch StorageClass", "unable to create PVC"}

\* The patched pod has the volume of the configuration's claim.
HasVolumeOf(pod, config) ==
    \E v \in 1..Len(pod.volumes) :
       pod.volumes[v] =
          Volume(NewPVCName(config, StorageClass(config.class).provisioner))

\* C16: a matching configuration for whose provisioner no claim can be built
\* stops that configuration only: every other matching configuration of the
\* pod, with a storage class and a driver, still gets its volume attached.
C16_ErrorIsLocal ==
    NoApiFailure
    => \A i, j \in 1..Len(admConfigs) :
          (/\ i # j
           /\ Matches(admConfigs[i]) /\ ClaimNotBuilt(admConfigs[i])
           /\ Matches(admConfigs[j])
           /\ ~ClassNotFound(admConfigs[j]) /\ ~ClaimNotBuilt(admConfigs[j]))
          => (admResp.kind = "patch" /\ HasVolumeOf(admResp.pod, admConfigs[j]))

\* C17: when the list holds no configuration that matches the pod (it is
\* empty, or every configuration is being deleted or selects labels the pod
\* lacks), Handle admits the pod without patch: the pod keeps its containers,
\* volumes, labels and scheduler name, and no claim is created.
C17_NoMatchUnmodified ==
    (/\ NoApiFailure
     /\ \A i \in 1..Len(admConfigs) : ~Matches(admConfigs[i]))
    => /\ admResp = Allowed("No sidecar injection")
       /\ AdmitsUnmodified(admResp)
       /\ admPod = admRaw
       /\ admCreated = {}

\* A pod labelled "app" was admitted as it came: one configuration is being
\* deleted, the other selects the label "tier".
C17_Witness ==
    /\ admPc = "done" /\ admResp.kind = "allowed"
    /\ admRaw.labels = {"app"}
    /\ Len(admConfigs) = 2
    /\ admConfigs[1].deleting /\ admConfigs[1].selector = {"app"}
    /\ ~admConfigs[2].deleting /\ admConfigs[2].selector = {"tier"}
    /\ admPod = admRaw

\* The indices of the listed configurations that match the pod.
Matching == {i \in 1..Len(admConfigs) : Matches(admConfigs[i])}

\* The claim name and the mount point Handle derives from a configuration.
ClaimOf(config) == NewPVCName(config, StorageClass(config.class).provisioner)
MountPointOf(config) == RenderMountPoint(config.pattern, ClaimOf(config), 0)

\* The container has exactly one volume mount per matching configuration on
\* top of those it came with: the configuration's claim at its mount point.
MountsEveryClaim(container, before) ==
    /\ Len(container.mounts) = before + Cardinality(Matching)
    /\ \A i \in Matching :
          \E m \in 1..Len(container.mounts) :
             /\ container.mounts[m].name = ClaimOf(admConfigs[i])
             /\ container.mounts[m].path = MountPointOf(admConfigs[i])

\* C18: for a pod matching one or more configurations that raise no error and
\* render pairwise different mount points, the response is a patch whose pod
\* has one added volume per matching configuration, naming that
\* configuration's claim, a volume mount per claim in every container, the
\* metrics sidecar as added container and the scheduler name overridden,
\* whether the claims were created by this call or existed already.
C18_PatchedPod ==
    (/\ NoApiFailure
     /\ Matching # {}
     /\ \A i \in Matching :
           ~ClassNotFound(admConfigs[i]) /\ ~ClaimNotBuilt(admConfigs[i])
     /\ \A i, j \in Matching :
           MountPointOf(admConfigs[i]) = MountPointOf(admConfigs[j]) => i = j)
    => LET pod == admResp.pod
           n == Len(admRaw.containers)
       IN /\ admResp.kind = "patch" /\ admResp.allowed
          /\ pod = admPod
          /\ Len(pod.volumes) = Len(admRaw.volumes) + Cardinality(Matching)
          /\ \A i \in Matching :
                \E v \in 1..Len(pod.volumes) :
                   /\ pod.volumes[v].name = ClaimOf(admConfigs[i])
                   /\ pod.volumes[v].claim = ClaimOf(admConfigs[i])
          /\ Len(pod.containers) = n + 1
          /\ pod.containers[n + 1].name = "discoblocks-metrics"
          /\ \A k \in 1..n :
                /\ pod.containers[k].name = admRaw.containers[k].name
                /\ MountsEveryClaim(pod.containers[k],
                                    Len(admRaw.containers[k].mounts))
          /\ MountsEveryClaim(pod.containers[n + 1], 0)
          /\ pod.scheduler = "discoblocks-scheduler"

\* A pod matching two configurations of different mount points was patched;
\* one of the two claims existed before the call.
C18_Witness ==
    /\ admPc = "done" /\ admResp.kind = "patch"
    /\ Cardinality(Matching) = 2
    /\ Len(admResp.pod.volumes) = 2
    /\ Cardinality(admCreated) = 1
    /\ Len(admResp.pod.containers[1].mounts) = 2

\* ------------------------------------------------ the storage class check
\* One call of IsStorageClassValid on a document that parses or not, with
\* each of the two keys missing or of any JSON type.
BindingValues ==
    {Absent, JSONNull, JSONTrue, JSONString("WaitForFirstConsumer"),
     JSONString("Immediate"), JSONString("")}
ExpansionValues ==
    {Absent, JSONNull, JSONTrue, JSONFalse, JSONString("true"), JSONString("")}

InitStorageClass ==
    /\ pvc = [c \in Claims |-> NoClaim]
    /\ dc = [d \in Configs |-> NoConfig]
    /\ endpoints = <<>>
    /\ exporter = [p \in Pods |-> NoLine]
    /\ CtlIdle
    /\ WebIdle
    /\ drvEnv \in [valid : BOOLEAN, binding : BindingValues,
                   expansion : ExpansionValues]
    /\ drvOut = "none"
    /\ job = NoJob
    /\ host = NoHost
    /\ run = NoRun

NextStorageClass == CallsIsStorageClassValid

SpecStorageClass == InitStorageClass /\ [][NextStorageClass]_vars

\* C20: the validation answers true exactly for a document that parses and
\* has volumeBindingMode "WaitForFirstConsumer" and allowVolumeExpansion
\* true; for every other document it answers false.
C20_ValidIffBindingAndExpansion ==
    drvOut # "none"
    => /\ drvOut \in {"true", "false"}
       /\ drvOut = "true" <=>
             /\ drvEnv.valid
             /\ drvEnv.binding = JSONString("WaitForFirstConsumer")
             /\ drvEnv.expansion = JSONTrue

\* The validation refused a class that binds on first consumer and has
\* expansion switched off.
C20_Witness ==
    /\ drvOut = "false"
    /\ drvEnv.valid
    /\ drvEnv.binding = JSONString("WaitForFirstConsumer")
    /\ drvEnv.expansion = JSONFalse

\* ------------------------------------------------------- the host jobs alone
\* One mount or resize job: the driver answers with its pre-command, the job
\* is rendered, and its command runs on a host where up to MaxFailing of the
\* host commands fail.
\* Largest number of host commands that fail on the host.
MaxFailing == 2
\* Largest number of containers of the pod a mount job serves.
MaxContainers == 2

FileSystems == {"ext3", "ext4", "xfs", "btrfs", "ntfs"}
Drivers == {"none", "other", "ebs"}
FallibleCommands ==
    {"DEV=discover", "DEV=$(mount | grep PV_NAME)", "mkdir globalmount",
     "mount DEV globalmount", "mount -o bind globalmount MOUNT_POINT",
     "DEV_MAJOR=$(mountinfo)", "DEV_MINOR=$(mountinfo)", "docker inspect",
     "crictl inspect", "mkdir /dev MOUNT_POINT", "mknod DEV",
     "mount DEV MOUNT_POINT", "resize2fs", "xfs_growfs", "btrfs resize"}

Requested(kind, driver, hostPID) ==
    [kind |-> kind, driver |-> driver, hostPID |-> hostPID,
     stage |-> "requested", pre |-> <<>>, command |-> <<>>]

InitJob ==
    /\ pvc = [c \in Claims |-> NoClaim]
    /\ dc = [d \in Configs |-> NoConfig]
    /\ endpoints = <<>>
    /\ exporter = [p \in Pods |-> NoLine]
    /\ CtlIdle
    /\ WebIdle
    /\ drvEnv = NoJSON
    /\ drvOut = "none"
    /\ run = NoRun
    /\ \E driver \in Drivers,
          failing \in {f \in SUBSET FallibleCommands : Cardinality(f) <= MaxFailing} :
          \/ \E hostPID \in BOOLEAN, n \in 1..MaxContainers :
                /\ job = Requested("mount", driver, hostPID)
                /\ host = [fs |-> "ext4", containers |-> n, failing |-> failing]
          \/ \E fs \in FileSystems :
                /\ job = Requested("resize", driver, FALSE)
                /\ host = [fs |-> fs, containers |-> 1, failing |-> failing]

NextJob ==
    \/ GetsPreCommand
    \/ RendersMountJob
    \/ RendersResizeJob
    \/ RunsJob

SpecJob == InitJob /\ [][NextJob]_vars

\* ----------------------------------------------- properties: the host jobs
\* The simple commands of the driver's pre-command.
PreNames == {job.pre[i].name : i \in 1..Len(job.pre)} \ {";"}

\* The pre-command, run on its own, returns a failure.
PreFails ==
    /\ job.pre # <<>>
    /\ ~Exec(job.pre, NoRun, host).hangs
    /\ Exec(job.pre, NoRun, host).status # 0

\* When the pre-command fails, no later command runs and "ok" is not printed.
PreFailureAborts ==
    (run.done /\ PreFails) => (run.ran \subseteq PreNames /\ "ok" \notin run.printed)

\* "ok" is printed only when every host command that ran before it succeeded.
OkMeansAllSucceeded ==
    (run.done /\ "ok" \in run.printed) => run.failed \cap FallibleCommands = {}

\* Without a pre-command the rendered command has no dangling "&&".
NoDanglingAnd ==
    (run.done /\ job.pre = <<>>) => (~run.syntax /\ ~Dangling(job.command, "start"))

\* C19: the pre-command is joined to the generic commands with "&&": when it
\* fails, no later command runs and "ok" is not printed; "ok" is printed only
\* when every command before it succeeded; and an empty pre-command leaves no
\* dangling "&&".
C19_PreCommandJoinedWithAnd ==
    PreFailureAborts /\ OkMeansAllSucceeded /\ NoDanglingAnd

\* -------------------------------------------- properties: never a shrink
\* This step sends an update whose storage request lies below the actual
\* capacity of the claim it is sent for.
RequestsShrink ==
    /\ Len(monIssued') = Len(monIssued) + 1
    /\ monIssued'[Len(monIssued')].req
          < pvc[monIssued'[Len(monIssued')].claim].cap

\* C24: every storage request MonitorVolumes sends for a claim is greater
\* than or equal to the claim's actual capacity, whatever the actual capacity
\* and the configured maximum are.
C24_NeverRequestsShrink == [][~RequestsShrink]_vars

\* ------------------------------------------------ the monitor under pressure
\* The monitor and the platform on a cluster whose volumes stay full: pvc1
\* is a bound, managed claim of the non-paused configuration dc1, with an
\* actual capacity at or below the maximum; the exporters of both pods
\* report no free space.
InitPressure ==
    /\ \E max \in 1..MaxCap, cap \in 1..MaxCap :
          /\ cap <= max
          /\ pvc = [c \in Claims |->
                       IF c = "pvc1"
                       THEN BoundClaim("dc1", {RenderFinalizer("dc1")}, cap)
                       ELSE BoundClaim("dc1", {RenderFinalizer("dc1")}, 1)]
          /\ \E pct \in Percentages :
                dc = [d \in Configs |->
                         IF d = "dc1" THEN Config(FALSE, max, pct) ELSE NoConfig]
    /\ endpoints = <<[label |-> "dc1", addrs |-> <<"pod1", "pod2">>]>>
    /\ exporter = [p \in Pods |-> SampleLine("/data", 0)]
    /\ IdleInit

NextPressure ==
    \/ MonitorScrapes
    \/ MonitorTakesPod
    \/ MonitorTakesConfig
    \/ MonitorTakesSample
    \/ \E c \in Claims : PlatformResized(c)

\* The ticker of SetupWithManager fires every minute, so every step of a
\* cycle is taken; the platform resizes a volume whose claim asks for more;
\* and no call of the cycle that serves pod1 fails forever: the fetch of
\* pod1's metrics, of pod1, of dc1, and the fetch and update of pvc1.
FairPressure ==
    /\ WF_vars(MonitorScrapes)
    /\ WF_vars(MonitorTakesPod)
    /\ WF_vars(MonitorTakesConfig)
    /\ WF_vars(MonitorTakesSample)
    /\ \A c \in Claims : WF_vars(PlatformResized(c))
    /\ SF_vars(MonitorScrapes /\ monMetrics'["pod1"] # <<>>)
    /\ SF_vars(MonitorTakesPod /\ monMetrics["pod1"] # <<>> /\ monPod' = "pod1")
    /\ SF_vars(MonitorTakesConfig /\ monMetrics["pod1"] # <<>>
                  /\ monPod = "pod1" /\ monPc' = "samples")
    /\ SF_vars(MonitorTakesSample /\ pvc'["pvc1"] # pvc["pvc1"])

SpecPressure == InitPressure /\ [][NextPressure]_vars /\ FairPressure

\* ------------------------------------- properties: progress under pressure
\* A step raises the actual capacity of pvc1 by at most 1Gi and never past
\* the maximum.
GrowsByAtMostOneGiB ==
    /\ pvc'["pvc1"].cap <= pvc["pvc1"].cap + GiB
    /\ pvc'["pvc1"].cap <= dc["dc1"].max

TakesPod == monPc = "pods" /\ monPodsLeft' # monPodsLeft

\* The loop over the configuration names of a pod takes one more name.
TakesConfig ==
    /\ monPc = "configs"
    /\ monCfgIdx <= Len(monDisco[monPod])
    /\ <<monPc, monCfgIdx, monCache>>' # <<monPc, monCfgIdx, monCache>>

\* What the cycle has gathered and sent so far stays as it is.
KeepsCycle ==
    /\ monDisco' = monDisco
    /\ monMetrics' = monMetrics
    /\ Len(monIssued') >= Len(monIssued)
    /\ SubSeq(monIssued', 1, Len(monIssued)) = monIssued

\* Whatever comes of the fetch of a pod, the loop goes on with the other pods
\* and only the pod taken leaves the pods to visit.
PodFailureSkipsPod ==
    TakesPod =>
       /\ \E p \in monPodsLeft :
             /\ monPodsLeft' = monPodsLeft \ {p}
             /\ \/ monPc' = "pods" /\ monPod' = monPod
                \/ monPc' = "configs" /\ monPod' = p /\ monCfgIdx' = 1
       /\ KeepsCycle /\ monIssued' = monIssued /\ pvc' = pvc

\* Whatever comes of the fetch of a configuration, the loop goes on with the
\* pod's next configuration name or with the samples of this one.
ConfigFailureSkipsConfig ==
    TakesConfig =>
       /\ \/ monPc' = "configs" /\ monCfgIdx' = monCfgIdx + 1
          \/ monPc' = "samples" /\ monCfgIdx' = monCfgIdx /\ monMetIdx' = 1
       /\ monPod' = monPod /\ monPodsLeft' = monPodsLeft
       /\ KeepsCycle /\ monIssued' = monIssued /\ pvc' = pvc

\* Whatever comes of a sample (no parse, no claim, a refused update), the
\* loop goes on with the next sample, and only the sample's claim may change.
SampleFailureSkipsSample ==
    EvaluatesSample =>
       /\ monPc' = "samples" /\ monCfgIdx' = monCfgIdx
       /\ monPod' = monPod /\ monPodsLeft' = monPodsLeft
       /\ KeepsCycle
       /\ \A c \in Claims : pvc'[c] # pvc[c] => IssuesUpdateOf(c)

\* A loop is left only after its last item, and MonitorVolumes returns only
\* after the last pod.
LoopsRunToTheEnd ==
    /\ (monPc = "samples" /\ monPc' # "samples")
          => /\ monMetIdx > Len(monMetrics[monPod])
             /\ monPc' = "configs" /\ monCfgIdx' = monCfgIdx + 1
    /\ (monPc = "configs" /\ monPc' \notin {"configs", "samples"})
          => monCfgIdx > Len(monDisco[monPod]) /\ monPc' = "pods"
    /\ (monPc = "pods" /\ monPc' \notin {"pods", "configs"})
          => monPodsLeft = {} /\ monPc' = "idle"

\* A sample that satisfies the resize conditions has its update sent,
\* whatever failed earlier in the cycle.
ResizeStillIssued ==
    \A c \in Claims :
       (/\ EvaluatesSample
        /\ ResolvesTo(c)
        /\ RenderFinalizer(CurCfgName) \in pvc[c].finalizers
        /\ Quantified
        /\ BelowThreshold(CurLine.val, pvc[c].cap, CurCfg.pct)
        /\ pvc[c].cap # CurCfg.max)
       => IssuesUpdateOf(c)

\* A cycle that fetches a pod, a configuration or a claim has collected a
\* metric line, and every pod an endpoint lists is to be visited, with the
\* line of its exporter or, after a failed fetch, without one.
NoMetricsNoFetch ==
    /\ monPc # "idle" => \E p \in Pods : monMetrics[p] # <<>>
    /\ (monPc = "idle" /\ monPc' # "idle")
          => /\ monPc' = "pods"
             /\ monPodsLeft' = {p \in Pods : monDisco'[p] # <<>>}
             /\ \A p \in Pods :
                   /\ monDisco'[p] = Discoblocks(Addresses(endpoints), p)
                   /\ \A i \in 1..Len(monMetrics'[p]) :
                         monMetrics'[p][i] = exporter[p]

\* C22: within one monitor cycle a failed fetch of metrics, of a pod, of a
\* configuration or of a claim, an unparsable sample and a failed update skip
\* only that item: the loops go on to their last item, every other sample
\* that satisfies the resize conditions has its update sent, and a cycle
\* without any metric line fetches no pod, configuration or claim.
C22_FailuresSkipOneItem ==
    [][/\ PodFailureSkipsPod
       /\ ConfigFailureSkipsConfig
       /\ SampleFailureSkipsSample
       /\ LoopsRunToTheEnd
       /\ ResizeStillIssued
       /\ NoMetricsNoFetch]_vars

\* The cycle has visited every pod and sent the update of pvc2 alone, though
\* the sample of pvc1 satisfies the resize conditions too: an item of pod1
\* failed (the fetch of the pod, of dc1 or of pvc1), and pod2 was served.
C22_Witness ==
    /\ monPc = "pods" /\ monPodsLeft = {}
    /\ monMetrics["pod1"] = <<SampleLine("/data", 0)>>
    /\ monMetrics["pod2"] = <<SampleLine("/data", 0)>>
    /\ \A c \in Claims :
          /\ pvc[c].finalizers = {RenderFinalizer("dc1")}
          /\ pvc[c].cap = pvc[c].req
    /\ ~dc["dc1"].pause
    /\ dc["dc1"].max = MaxCap
    /\ pvc["pvc1"].cap = 1
    /\ Len(monIssued) = 1
    /\ monIssued[1].claim = "pvc2"

\* --------------------------------------------- the reconciler and a writer
\* The reconciler alone with a second writer of the status of dc1.  Both
\* claims are managed by dc1 and wait in the work queue; the status lists
\* pvc2 as bound and does not list pvc1.
InitConflict ==
    /\ \E deleting \in BOOLEAN, phase \in Phases :
          pvc = [c \in Claims |->
                    IF c = "pvc1"
                    THEN [BoundClaim("dc1", {RenderFinalizer("dc1")}, GiB)
                             EXCEPT !.deleting = deleting, !.phase = phase]
                    ELSE BoundClaim("dc1", {RenderFinalizer("dc1")}, GiB)]
    /\ dc = [d \in Configs |->
                IF d = "dc1"
                THEN [Config(FALSE, GiB + 1, 50) EXCEPT !.status["pvc2"] = "Bound"]
                ELSE NoConfig]
    /\ endpoints = <<>>
    /\ exporter = [p \in Pods |-> NoLine]
    /\ \E waiting \in (SUBSET Claims) \ {{}} :
          /\ queue = waiting
    /\ gate = "free"
    /\ recPc = "idle"
    /\ recReq = ""
    /\ recPVC = NoClaim
    /\ recCfg = NoSnapshot
    /\ recStale = FALSE
    /\ recResult = NoResult
    /\ monPc = "idle"
    /\ monDisco = [p \in Pods |-> <<>>]
    /\ monMetrics = [p \in Pods |-> <<>>]
    /\ monPodsLeft = {}
    /\ monPod = ""
    /\ monCfgIdx = 0
    /\ monMetIdx = 0
    /\ monCache = NoCache
    /\ monIssued = <<>>
    /\ monLog = NoLog
    /\ evt = NoEvent
    /\ WebIdle
    /\ DrvIdle

NextConflict ==
    \/ ReconcileLocks
    \/ ReconcileGetsPVC
    \/ ReconcileGetsConfig
    \/ ReconcileUpdatesStatus
    \/ StatusWritten("dc1")

SpecConflict == InitConflict /\ [][NextConflict]_vars

\* ------------------------------------- properties: no status write is lost
\* This step is the return of Reconcile from its status update.
ReturnsFromUpdate == recPc = "update" /\ recPc' = "idle"

\* C23: when another writer changed the configuration's status after
\* Reconcile read it, the status update fails: Reconcile returns an error,
\* the key is queued again and the stored status, the other writer's entries
\* included, stays as it is; a status update that goes through was sent from
\* a read that is still current, and leaves every other entry as stored.
C23_NoStatusWriteLost ==
    [][ReturnsFromUpdate =>
          /\ (recStale \/ recCfg.status # dc[recCfg.name].status)
                => /\ recResult'.err
                   /\ recResult'.log = "Unable to update PVC status"
                   /\ recReq \in queue'
                   /\ dc' = dc
          /\ WritesStatus
                => /\ recCfg.status = dc[recCfg.name].status
                   /\ \A c \in Claims \ {recReq} :
                         dc'[recCfg.name].status[c] = dc[recCfg.name].status[c]]_vars

\* Reconcile of pvc1 came back with the error of the status update and its
\* key is queued again; the status holds an entry of pvc2 that the other
\* writer stored, and no entry of pvc1.
C23_Witness ==
    /\ recResult = ErrorResult("pvc1", "Unable to update PVC status")
    /\ "pvc1" \in queue
    /\ dc["dc1"].status["pvc2"] = "Pending"
    /\ dc["dc1"].status["pvc1"] = NoEntry
    /\ ~pvc["pvc1"].deleting

\* ------------------------------------------------ a managed claim goes away
\* The reconciler and the cluster while pvc1, a claim managed by dc1, is
\* deleted: deletion is requested, the finalizer keeps the object until it is
\* removed, and then the object is gone.  The status of dc1 lists pvc2, and
\* pvc1 when a reconcile has mirrored it already.
InitGone ==
    /\ \E phase \in Phases, entry \in {NoEntry, "Pending", "Bound"} :
          /\ entry \in {NoEntry, phase}
          /\ pvc = [c \in Claims |->
                       IF c = "pvc1"
                       THEN [BoundClaim("dc1", {RenderFinalizer("dc1")}, GiB)
                                EXCEPT !.phase = phase]
                       ELSE BoundClaim("dc1", {RenderFinalizer("dc1")}, GiB)]
          /\ dc = [d \in Configs |->
                      IF d = "dc1"
                      THEN [Config(FALSE, GiB + 1, 50) EXCEPT
                               !.status["pvc2"] = "Bound",
                               !.status["pvc1"] = entry]
                      ELSE NoConfig]
    /\ endpoints = <<>>
    /\ exporter = [p \in Pods |-> NoLine]
    /\ IdleInit

\* The finalizer of a claim marked for deletion is removed, and the platform
\* removes the claim.
DeletionCompleted(c) == pvc[c].deleting /\ FinalizerRemoved(c)

NextGone ==
    \/ ClaimBound("pvc1")
    \/ ClaimTouched("pvc1")
    \/ ClaimDeleteRequested("pvc1")
    \/ DeletionCompleted("pvc1")
    \/ OtherAcquires
    \/ OtherReleases
    \/ ReconcileBusy
    \/ ReconcileLocks
    \/ ReconcileGetsPVC
    \/ ReconcileGetsConfig
    \/ ReconcileUpdatesStatus

SpecGone == InitGone /\ [][NextGone]_vars

\* ------------------------------------ properties: entries of claims gone
\* The claim is gone, no event of it waits in the queue and no reconcile of
\* it is running.
GoneAndReconciled(c) ==
    /\ ~pvc[c].exists
    /\ c \notin queue
    /\ recPc = "idle"

\* C25: after a managed claim has been deleted and every admitted event of
\* it has been reconciled, the status of the owning configuration holds no
\* entry for the claim.
C25_NoEntryForGoneClaim ==
    GoneAndReconciled("pvc1") => dc["dc1"].status["pvc1"] = NoEntry

\* --------------------------------------- properties: a failed growth
\* The file-system types the resize script has a growth command for.
Supported == {"ext3", "ext4", "xfs", "btrfs"}

\* The growth command the resize script runs for a file-system type.
GrowthCommand(fs) ==
    CASE fs \in {"ext3", "ext4"} -> "resize2fs"
      [] fs = "xfs" -> "xfs_growfs"
      [] OTHER -> "btrfs resize"

\* The resize script has run and its growth command has failed.
GrowthFailed ==
    /\ run.done /\ job.kind = "resize"
    /\ host.fs \in Supported
    /\ GrowthCommand(host.fs) \in run.failed

\* C26: when the file-system type is a supported one and its growth command
\* fails, the resize script neither logs "unsupported" nor prints "ok", and
\* the job fails; "unsupported" is logged only for a file-system type outside
\* the supported ones, and then the script exits with 0.
C26_FailedGrowthFails ==
    /\ GrowthFailed
          => /\ "unsupported file-system" \notin run.printed
             /\ "ok" \notin run.printed
             /\ run.status # 0
    /\ (run.done /\ job.kind = "resize"
           /\ "unsupported file-system" \in run.printed)
          => host.fs \notin Supported /\ run.status = 0

\* ------------------------------------------ properties: the job terminates
\* The shell has come to the end of the job's command: it printed "ok" or
\* stopped at a command that failed.
Terminated ==
    /\ run.done /\ ~run.hangs
    /\ "ok" \in run.printed \/ run.status # 0

\* C27: a mount or resize job rendered with the pre-command of the EBS driver
\* terminates: the shell runs the assignment of DEV, and prints "ok" or stops
\* at a failing command.
C27_EbsJobTerminates ==
    (run.done /\ job.driver = "ebs")
       => /\ Terminated
          /\ "DEV=$(mount | grep PV_NAME)" \in run.ran
====
